---------------------------- MODULE Spec2Model ----------------------------
(***************************************************************************)
(* Interest-accrual reconstruction of the RMM dashboard                    *)
(* (lib/services/thegraph-interest-calculator.ts and its V2 twin).         *)
(*                                                                         *)
(* JavaScript values are modelled by what they are:                        *)
(*   - a string is a sequence of one-character strings;                    *)
(*   - a BigInt is a record [neg, mag], mag a little-endian sequence of    *)
(*     limbs in base 10^4 without leading zero limbs (0n has mag <<>>);    *)
(*   - a Number holding an integer is the integer the IEEE-754 double      *)
(*     holds (53 significant bits, round to nearest, ties to even);        *)
(*   - a timestamp is a Number of seconds that fits a machine integer.     *)
(***************************************************************************)
EXTENDS Integers, Sequences, FiniteSets, TLC

(***************************************************************************)
(* Arbitrary-precision naturals (the magnitude of a BigInt)                *)
(***************************************************************************)
Max(a, b) == IF a >= b THEN a ELSE b

Limb(a, i) == IF i <= Len(a) THEN a[i] ELSE 0

RECURSIVE Trim(_)
Trim(a) == IF a = <<>> THEN a
           ELSE IF a[Len(a)] = 0 THEN Trim(SubSeq(a, 1, Len(a) - 1))
           ELSE a

RECURSIVE NatAddFrom(_, _, _, _)
NatAddFrom(a, b, i, carry) ==
    IF i > Len(a) /\ i > Len(b)
    THEN (IF carry = 0 THEN <<>> ELSE <<carry>>)
    ELSE LET s == Limb(a, i) + Limb(b, i) + carry
         IN  <<s % 10000>> \o NatAddFrom(a, b, i + 1, s \div 10000)

NatAdd(a, b) == NatAddFrom(a, b, 1, 0)

\* most significant differing limb decides; -1, 0 or 1
RECURSIVE NatCmpFrom(_, _, _)
NatCmpFrom(a, b, i) ==
    IF i = 0 THEN 0
    ELSE IF a[i] < b[i] THEN -1
    ELSE IF a[i] > b[i] THEN 1
    ELSE NatCmpFrom(a, b, i - 1)

NatCmp(a, b) ==
    IF Len(a) < Len(b) THEN -1
    ELSE IF Len(a) > Len(b) THEN 1
    ELSE NatCmpFrom(a, b, Len(a))

\* a - b for a >= b
RECURSIVE NatSubFrom(_, _, _, _)
NatSubFrom(a, b, i, borrow) ==
    IF i > Len(a) THEN <<>>
    ELSE LET d == a[i] - Limb(b, i) - borrow
         IN  IF d < 0
             THEN <<d + 10000>> \o NatSubFrom(a, b, i + 1, 1)
             ELSE <<d>> \o NatSubFrom(a, b, i + 1, 0)

NatSub(a, b) == Trim(NatSubFrom(a, b, 1, 0))

\* a * d for one limb d
RECURSIVE NatMulLimbFrom(_, _, _, _)
NatMulLimbFrom(a, d, i, carry) ==
    IF i > Len(a)
    THEN (IF carry = 0 THEN <<>> ELSE <<carry>>)
    ELSE LET p == a[i] * d + carry
         IN  <<p % 10000>> \o NatMulLimbFrom(a, d, i + 1, p \div 10000)

NatMulLimb(a, d) == IF d = 0 THEN <<>> ELSE NatMulLimbFrom(a, d, 1, 0)

\* a * 10000^k
NatShift(a, k) == IF a = <<>> THEN a ELSE [i \in 1..k |-> 0] \o a

RECURSIVE NatMulFrom(_, _, _)
NatMulFrom(a, b, j) ==
    IF j > Len(b) THEN <<>>
    ELSE NatAdd(NatShift(NatMulLimb(a, b[j]), j - 1), NatMulFrom(a, b, j + 1))

NatMul(a, b) == IF a = <<>> \/ b = <<>> THEN <<>> ELSE NatMulFrom(a, b, 1)

\* the greatest limb q in lo..hi with b * q <= r (by bisection; b * lo <= r)
RECURSIVE QuotLimb(_, _, _, _)
QuotLimb(r, b, lo, hi) ==
    IF lo = hi THEN lo
    ELSE LET mid == (lo + hi + 1) \div 2
         IN  IF NatCmp(NatMulLimb(b, mid), r) <= 0
             THEN QuotLimb(r, b, mid, hi)
             ELSE QuotLimb(r, b, lo, mid - 1)

\* the limb q of the quotient and what is left of the remainder r
NatDivPut(r, b, qs, q) == <<<<q>> \o qs, NatSub(r, NatMulLimb(b, q))>>

\* the remainder r so far against the divisor
NatDivLimb(r, b, qs) ==
    IF NatCmp(r, b) < 0 THEN <<<<0>> \o qs, r>>
    ELSE NatDivPut(r, b, qs, QuotLimb(r, b, 1, 9999))

\* one step of long division: the limb d is brought down to the remainder
\* of the more significant limbs; up is <<quotient limbs, remainder>> so far
NatDivStep(d, b, up) ==
    IF up[2] = <<>> /\ d = 0 THEN <<<<0>> \o up[1], <<>>>>
    ELSE NatDivLimb(Trim(<<d>> \o up[2]), b, up[1])

\* schoolbook long division, most significant limb first:
\* <<quotient limbs so far (little-endian), remainder>>
RECURSIVE NatDivModFrom(_, _, _)
NatDivModFrom(a, b, i) ==
    IF i > Len(a) THEN <<<<>>, <<>>>>
    ELSE NatDivStep(a[i], b, NatDivModFrom(a, b, i + 1))

\* floor(a / b) and a mod b for b > 0
NatDiv(a, b) == IF NatCmp(a, b) < 0 THEN <<>> ELSE Trim(NatDivModFrom(a, b, 1)[1])
NatMod(a, b) == IF NatCmp(a, b) < 0 THEN a ELSE NatDivModFrom(a, b, 1)[2]

\* h * h, times a when e is odd; nothing to multiply when h is 0
NatPowStep(h, a, e) ==
    IF h = <<>> THEN <<>>
    ELSE IF e % 2 = 0 THEN NatMul(h, h) ELSE NatMul(NatMul(h, h), a)

\* a^e by repeated squaring
RECURSIVE NatPow(_, _)
NatPow(a, e) ==
    IF e = 0 THEN <<1>> ELSE NatPowStep(NatPow(a, e \div 2), a, e)

\* a machine-size natural as a magnitude
RECURSIVE NatOf(_)
NatOf(n) == IF n = 0 THEN <<>> ELSE <<n % 10000>> \o NatOf(n \div 10000)


(***************************************************************************)
(* Strings: sequences of one-character strings                             *)
(***************************************************************************)
Digits == <<"0", "1", "2", "3", "4", "5", "6", "7", "8", "9">>

IsDigit(c) == \E d \in 1..10 : Digits[d] = c

DigitVal(c) == (CHOOSE d \in 1..10 : Digits[d] = c) - 1

\* the decimal digits of a machine-size natural, at least `width` of them
RECURSIVE IntToString(_, _)
IntToString(n, width) ==
    IF n < 10 /\ width <= 1 THEN <<Digits[n + 1]>>
    ELSE IntToString(n \div 10, width - 1) \o <<Digits[(n % 10) + 1]>>

\* String.prototype.padStart(2, '0') of String(n)
PadStart2(n) == IntToString(n, 2)

\* value of a run of at most four digit characters
RECURSIVE DigitsValue(_)
DigitsValue(s) ==
    IF s = <<>> THEN 0
    ELSE 10 * DigitsValue(SubSeq(s, 1, Len(s) - 1)) + DigitVal(s[Len(s)])

\* limbs of a digit string, least significant group of four first
RECURSIVE DecLimbs(_)
DecLimbs(s) ==
    IF s = <<>> THEN <<>>
    ELSE LET n  == Len(s)
             lo == Max(1, n - 3)
         IN  <<DigitsValue(SubSeq(s, lo, n))>> \o DecLimbs(SubSeq(s, 1, lo - 1))

RECURSIVE NatToStringFrom(_, _)
NatToStringFrom(a, i) ==
    IF i = 0 THEN <<>>
    ELSE IntToString(a[i], IF i = Len(a) THEN 1 ELSE 4) \o NatToStringFrom(a, i - 1)

NatToString(a) == IF a = <<>> THEN <<"0">> ELSE NatToStringFrom(a, Len(a))

(***************************************************************************)
(* BigInt                                                                  *)
(***************************************************************************)
MkBig(neg, mag) == [neg |-> neg /\ mag # <<>>, mag |-> mag]

Zero == MkBig(FALSE, <<>>)

\* BigInt(n) for a small non-negative integer literal such as 0n
BigOf(n) == MkBig(FALSE, NatOf(n))

IsDecimalString(s) == \A i \in 1..Len(s) : IsDigit(s[i])

HexDigits == <<"0", "1", "2", "3", "4", "5", "6", "7", "8", "9",
               "a", "b", "c", "d", "e", "f">>

IsHexDigit(c) == \E d \in 1..16 : HexDigits[d] = c

HexDigitVal(c) == (CHOOSE d \in 1..16 : HexDigits[d] = c) - 1

IsHexString(s) == \A i \in 1..Len(s) : IsHexDigit(s[i])

\* magnitude of the hexadecimal digits s[lo..hi], most significant first
\* (halving the run: the left half is worth 16^(length of the right half))
RECURSIVE HexLimbs(_, _, _)
HexLimbs(s, lo, hi) ==
    IF lo > hi THEN <<>>
    ELSE IF lo = hi THEN NatOf(HexDigitVal(s[lo]))
    ELSE IF \A i \in lo..hi : s[i] = "0" THEN <<>>
    ELSE NatAdd(NatMul(HexLimbs(s, lo, (lo + hi) \div 2),
                       NatPow(<<16>>, hi - (lo + hi) \div 2)),
                HexLimbs(s, (lo + hi) \div 2 + 1, hi))

\* the string without its leading and trailing white space
RECURSIVE StrTrim(_)
StrTrim(s) ==
    IF s = <<>> THEN s
    ELSE IF s[1] = " " THEN StrTrim(Tail(s))
    ELSE IF s[Len(s)] = " " THEN StrTrim(SubSeq(s, 1, Len(s) - 1))
    ELSE s

HasHexPrefix(t) == Len(t) >= 2 /\ t[1] = "0" /\ t[2] = "x"

\* StringToBigInt fails on a trimmed string: neither empty, nor signed
\* decimal digits, nor 0x and hexadecimal digits
TrimmedSyntaxError(t) ==
    ~ \/ t = <<>>
      \/ IsDecimalString(t)
      \/ Len(t) > 1 /\ (t[1] = "-" \/ t[1] = "+") /\ IsDecimalString(Tail(t))
      \/ Len(t) > 2 /\ HasHexPrefix(t) /\ IsHexString(SubSeq(t, 3, Len(t)))

\* a value that is not there (a missing field)
Undefined == <<"undefined">>

\* BigInt(value) throws: TypeError for undefined, SyntaxError for a string
\* that is not an integer literal
BigIntThrows(s) == s = Undefined \/ TrimmedSyntaxError(StrTrim(s))

BigIntTrimmed(t) ==
    IF HasHexPrefix(t) THEN MkBig(FALSE, HexLimbs(t, 3, Len(t)))
    ELSE IF Len(t) > 1 /\ t[1] = "-" THEN MkBig(TRUE, Trim(DecLimbs(Tail(t))))
    ELSE IF Len(t) > 1 /\ t[1] = "+" THEN MkBig(FALSE, Trim(DecLimbs(Tail(t))))
    ELSE MkBig(FALSE, Trim(DecLimbs(t)))

\* BigInt(string) where it does not throw: StringToBigInt; the empty string
\* is 0n
BigInt(s) == BigIntTrimmed(StrTrim(s))

\* BigInt.prototype.toString()
BigToString(x) == (IF x.neg THEN <<"-">> ELSE <<>>) \o NatToString(x.mag)

BigAdd(x, y) ==
    IF x.neg = y.neg THEN MkBig(x.neg, NatAdd(x.mag, y.mag))
    ELSE IF NatCmp(x.mag, y.mag) >= 0 THEN MkBig(x.neg, NatSub(x.mag, y.mag))
    ELSE MkBig(y.neg, NatSub(y.mag, x.mag))

BigNeg(x) == MkBig(~x.neg, x.mag)

BigSub(x, y) == BigAdd(x, BigNeg(y))

BigMul(x, y) == MkBig(x.neg # y.neg, NatMul(x.mag, y.mag))

\* BigInt division truncates toward zero
BigDiv(x, y) == MkBig(x.neg # y.neg, NatDiv(x.mag, y.mag))

BigCmp(x, y) ==
    IF x.neg /\ ~y.neg THEN -1
    ELSE IF ~x.neg /\ y.neg THEN 1
    ELSE IF x.neg THEN NatCmp(y.mag, x.mag)
    ELSE NatCmp(x.mag, y.mag)

BigGT(x, y) == BigCmp(x, y) > 0
BigLT(x, y) == BigCmp(x, y) < 0

(***************************************************************************)
(* Number (IEEE-754 double) holding an integer                             *)
(***************************************************************************)
\* the least k in lo..hi with 2^k > a (by bisection; 2^hi > a)
RECURSIVE BitLengthIn(_, _, _)
BitLengthIn(a, lo, hi) ==
    IF lo = hi THEN lo
    ELSE LET mid == (lo + hi) \div 2
         IN  IF NatCmp(NatPow(<<2>>, mid), a) > 0
             THEN BitLengthIn(a, lo, mid)
             ELSE BitLengthIn(a, mid + 1, hi)

\* number of significant bits of a; a limb holds fewer than 14 bits
BitLength(a) == IF a = <<>> THEN 0 ELSE BitLengthIn(a, 13 * (Len(a) - 1), 14 * Len(a))

\* the quotient q goes up when the remainder is past half an ulp (c > 0),
\* or is half an ulp (c = 0) and q is odd
RoundsUp(q, c) == c > 0 \/ (c = 0 /\ q[1] % 2 = 1)

\* qr is <<a div ulp, a mod ulp>>: the number of ulps nearest to a
RoundedQuotient(qr, half) ==
    IF RoundsUp(Trim(qr[1]), NatCmp(qr[2], half))
    THEN NatAdd(Trim(qr[1]), <<1>>)
    ELSE Trim(qr[1])

RoundToUlp(qr, ulp, half) == NatMul(RoundedQuotient(qr, half), ulp)

RoundToBits(a, bits) ==
    IF bits <= 53 THEN a
    ELSE RoundToUlp(NatDivModFrom(a, NatPow(<<2>>, bits - 53), 1),
                    NatPow(<<2>>, bits - 53), NatPow(<<2>>, bits - 54))

\* the integer held by the double nearest to a (53-bit significand, ties to even)
RoundToDouble(a) ==
    IF Len(a) <= 3 THEN a     \* below 10^12 every integer is a double
    ELSE RoundToBits(a, BitLength(a))

\* base ** exponent on Numbers with an integral mathematical value
NumberPow(base, exponent) == RoundToDouble(NatPow(NatOf(base), exponent))

\* BigInt(number) for a Number holding a non-negative integer
BigIntOfNumber(n) == MkBig(FALSE, n)

\* const RAY = BigInt(10 ** 27);
RAY == BigIntOfNumber(NumberPow(10, 27))

(***************************************************************************)
(* Calendar: formatDateYYYYMMDD.  The Date getters are read in the zone    *)
(* of the process, taken here to be UTC.                                   *)
(***************************************************************************)
\* civil date <<year, month, day>> of a day number counted from 1970-01-01
CivilFromDays(days) ==
    LET z   == days + 719468
        era == z \div 146097
        doe == z - era * 146097
        yoe == (doe - doe \div 1460 + doe \div 36524 - doe \div 146096) \div 365
        doy == doe - (365 * yoe + yoe \div 4 - yoe \div 100)
        mp  == (5 * doy + 2) \div 153
        d   == doy - (153 * mp + 2) \div 5 + 1
        m   == IF mp < 10 THEN mp + 3 ELSE mp - 9
        y   == yoe + era * 400 + (IF m <= 2 THEN 1 ELSE 0)
    IN  <<y, m, d>>

formatDateYYYYMMDD(timestamp) ==
    LET date == CivilFromDays(timestamp \div 86400)
    IN  IntToString(date[1], 1) \o PadStart2(date[2]) \o PadStart2(date[3])

(***************************************************************************)
(* Array.prototype.sort((a, b) => a.timestamp - b.timestamp): stable       *)
(***************************************************************************)
\* x goes behind every element that does not compare greater than it
InsertByTimestamp(sorted, x) ==
    LET k == Cardinality({j \in 1..Len(sorted) : sorted[j].timestamp <= x.timestamp})
    IN  SubSeq(sorted, 1, k) \o <<x>> \o SubSeq(sorted, k + 1, Len(sorted))

RECURSIVE SortByTimestampFrom(_, _, _)
SortByTimestampFrom(arr, i, sorted) ==
    IF i > Len(arr) THEN sorted
    ELSE SortByTimestampFrom(arr, i + 1, InsertByTimestamp(sorted, arr[i]))

SortByTimestamp(arr) == SortByTimestampFrom(arr, 1, <<>>)

(***************************************************************************)
(* Map<string, any>: entries in insertion order of their keys              *)
(***************************************************************************)
\* a map whose set() would leave the value of an existing key alone
MapSetKeepingFirst(map, key, value) ==
    IF \E j \in 1..Len(map) : map[j].key = key
    THEN map
    ELSE Append(map, [key |-> key, value |-> value])

MapSet(map, key, value) ==
    IF \E j \in 1..Len(map) : map[j].key = key
    THEN [j \in 1..Len(map) |->
            IF map[j].key = key THEN [key |-> key, value |-> value] ELSE map[j]]
    ELSE Append(map, [key |-> key, value |-> value])

MapValues(map) == [j \in 1..Len(map) |-> map[j].value]

\* sortedBalances.forEach(balance => balancesByDay.set(dateKey, balance))
RECURSIVE BalancesByDayFrom(_, _, _)
BalancesByDayFrom(sortedBalances, i, balancesByDay) ==
    IF i > Len(sortedBalances) THEN balancesByDay
    ELSE BalancesByDayFrom(sortedBalances, i + 1,
            MapSet(balancesByDay, formatDateYYYYMMDD(sortedBalances[i].timestamp),
                   sortedBalances[i]))

\* the sorted balances without the collapse by day
PeriodBalancesNotCollapsed(tokenBalances) == SortByTimestamp(tokenBalances)

\* sort, deduplicate by day (the last one overwrites), sort again
PeriodBalances(tokenBalances) ==
    SortByTimestamp(MapValues(BalancesByDayFrom(SortByTimestamp(tokenBalances), 1, <<>>)))

\* atokenBalances.filter(balance => balance.userReserve.reserve.symbol === token)
FilterToken(balances, token) == SelectSeq(balances, LAMBDA b : b.symbol = token)

\* the value null handed over in place of an array (it equals no array)
Null == <<[null |-> TRUE]>>

Str0 == <<"0">>

\* an empty result whose totals are left blank instead of "0"
createEmptyResultBlankTotals(type) ==
    [totalInterest |-> <<>>,
     dailyDetails  |-> <<>>,
     summary       |-> IF type = "supply"
                       THEN [totalSupplies |-> Str0, totalWithdraws |-> Str0,
                             currentSupply |-> Str0, totalInterest |-> <<>>]
                       ELSE [totalBorrows |-> Str0, totalRepays |-> Str0,
                             currentDebt |-> Str0, totalInterest |-> <<>>]]

createEmptyResult(type) ==
    [totalInterest |-> Str0,
     dailyDetails  |-> <<>>,
     summary       |-> IF type = "supply"
                       THEN [totalSupplies |-> Str0, totalWithdraws |-> Str0,
                             currentSupply |-> Str0, totalInterest |-> Str0]
                       ELSE [totalBorrows |-> Str0, totalRepays |-> Str0,
                             currentDebt |-> Str0, totalInterest |-> Str0]]

(***************************************************************************)
(* calculateSupplyInterestFromBalances                                     *)
(***************************************************************************)
\* lines 168-180: the movement of the day, converted at the current index
SupplyMovement(previousBalance, currentBalance) ==
    LET scaledATokenBalance         == BigInt(currentBalance.scaledATokenBalance)
        previousScaledATokenBalance == BigInt(previousBalance.scaledATokenBalance)
        currentIndex                == BigInt(currentBalance.index)
    IN  IF BigGT(scaledATokenBalance, previousScaledATokenBalance)
        THEN [daySupply   |-> BigDiv(BigMul(BigSub(scaledATokenBalance,
                                  previousScaledATokenBalance), currentIndex), RAY),
              dayWithdraw |-> Zero]
        ELSE IF BigLT(scaledATokenBalance, previousScaledATokenBalance)
        THEN [daySupply   |-> Zero,
              dayWithdraw |-> BigDiv(BigMul(BigSub(previousScaledATokenBalance,
                                  scaledATokenBalance), currentIndex), RAY)]
        ELSE [daySupply |-> Zero, dayWithdraw |-> Zero]

\* lines 181-187: interest of the period, kept only when positive
SupplyPeriodInterest(previousBalance, currentBalance) ==
    LET previousScaledATokenBalance == BigInt(previousBalance.scaledATokenBalance)
        currentIndex                == BigInt(currentBalance.index)
        previousIndex               == BigInt(previousBalance.index)
        periodInterest == BigDiv(BigMul(previousScaledATokenBalance,
                                        BigSub(currentIndex, previousIndex)), RAY)
    IN  IF BigGT(periodInterest, Zero) THEN periodInterest ELSE Zero

\* a detail total that forgets the interest of the earlier days
SupplyDetailTotalOfDayOnly(totalInterest, dayTotalInterest) == dayTotalInterest

\* a detail total that takes the interest of the day off
SupplyDetailTotalMinus(totalInterest, dayTotalInterest) ==
    BigSub(totalInterest, dayTotalInterest)

\* line 195: the running total written into the daily detail
SupplyDetailTotal(totalInterest, dayTotalInterest) ==
    BigAdd(totalInterest, dayTotalInterest)

\* lines 190-199
SupplyDailyDetail(currentBalance, dayTotalInterest, totalInterest, move) ==
    [date              |-> formatDateYYYYMMDD(currentBalance.timestamp),
     timestamp         |-> currentBalance.timestamp,
     supply            |-> BigToString(BigInt(currentBalance.currentATokenBalance)),
     periodInterest    |-> BigToString(dayTotalInterest),
     totalInterest     |-> BigToString(SupplyDetailTotal(totalInterest, dayTotalInterest)),
     transactionAmount |-> IF BigGT(move.daySupply, Zero) THEN BigToString(move.daySupply)
                           ELSE IF BigGT(move.dayWithdraw, Zero)
                                THEN BigToString(move.dayWithdraw) ELSE Str0,
     transactionType   |-> IF BigGT(move.daySupply, Zero) THEN "supply"
                           ELSE IF BigGT(move.dayWithdraw, Zero) THEN "withdraw"
                           ELSE "none",
     source            |-> "real"]

\* lines 201-203 and the running sums of lines 173 and 179
SupplyAccumulate(acc, currentBalance, move, dayTotalInterest) ==
    [dailyDetails   |-> Append(acc.dailyDetails,
                               SupplyDailyDetail(currentBalance, dayTotalInterest,
                                                 acc.totalInterest, move)),
     totalInterest  |-> BigAdd(acc.totalInterest, dayTotalInterest),
     currentSupply  |-> BigInt(currentBalance.currentATokenBalance),
     totalSupplies  |-> BigAdd(acc.totalSupplies, move.daySupply),
     totalWithdraws |-> BigAdd(acc.totalWithdraws, move.dayWithdraw)]

\* one turn of the loop of lines 149-204
SupplyStep(periodBalances, i, acc) ==
    SupplyAccumulate(acc, periodBalances[i],
        IF i = 1 THEN [daySupply |-> Zero, dayWithdraw |-> Zero]
        ELSE SupplyMovement(periodBalances[i - 1], periodBalances[i]),
        IF i = 1 THEN Zero
        ELSE SupplyPeriodInterest(periodBalances[i - 1], periodBalances[i]))

RECURSIVE SupplyLoop(_, _, _)
SupplyLoop(periodBalances, i, acc) ==
    IF i > Len(periodBalances) THEN acc
    ELSE SupplyLoop(periodBalances, i + 1, SupplyStep(periodBalances, i, acc))

\* lines 208-217
SupplyResult(acc) ==
    [totalInterest |-> BigToString(acc.totalInterest),
     dailyDetails  |-> acc.dailyDetails,
     summary       |-> [totalSupplies  |-> BigToString(acc.totalSupplies),
                        totalWithdraws |-> BigToString(acc.totalWithdraws),
                        currentSupply  |-> BigToString(acc.currentSupply),
                        totalInterest  |-> BigToString(acc.totalInterest)]]

\* lines 128-204 on the balances of the requested token
SupplySeries(tokenBalances) ==
    IF Len(tokenBalances) = 0 THEN createEmptyResult("supply")
    ELSE SupplyResult(SupplyLoop(PeriodBalances(tokenBalances), 1,
                         [dailyDetails |-> <<>>, totalInterest |-> Zero,
                          currentSupply |-> Zero, totalSupplies |-> Zero,
                          totalWithdraws |-> Zero]))

calculateSupplyInterestFromBalances(atokenBalances, token) ==
    IF atokenBalances = Null \/ Len(atokenBalances) = 0 THEN createEmptyResult("supply")
    ELSE SupplySeries(FilterToken(atokenBalances, token))

(***************************************************************************)
(* calculateDebtInterestFromBalances                                       *)
(***************************************************************************)
\* lines 272-281: the first point against currentDebt = 0n
DebtFirstMovement(currentBalance, currentDebt) ==
    LET currentVariableDebt == BigInt(currentBalance.currentVariableDebt)
    IN  IF BigGT(currentVariableDebt, currentDebt)
        THEN [dayBorrow |-> BigSub(currentVariableDebt, currentDebt), dayRepay |-> Zero]
        ELSE IF BigLT(currentVariableDebt, currentDebt)
        THEN [dayBorrow |-> Zero, dayRepay |-> BigSub(currentDebt, currentVariableDebt)]
        ELSE [dayBorrow |-> Zero, dayRepay |-> Zero]

\* lines 289-304
DebtMovement(previousBalance, currentBalance) ==
    LET scaledVariableDebt         == BigInt(currentBalance.scaledVariableDebt)
        previousScaledVariableDebt == BigInt(previousBalance.scaledVariableDebt)
        currentIndex               == BigInt(currentBalance.index)
    IN  IF BigGT(scaledVariableDebt, previousScaledVariableDebt)
        THEN [dayBorrow |-> BigDiv(BigMul(BigSub(scaledVariableDebt,
                                previousScaledVariableDebt), currentIndex), RAY),
              dayRepay  |-> Zero]
        ELSE IF BigLT(scaledVariableDebt, previousScaledVariableDebt)
        THEN [dayBorrow |-> Zero,
              dayRepay  |-> BigDiv(BigMul(BigSub(previousScaledVariableDebt,
                                scaledVariableDebt), currentIndex), RAY)]
        ELSE [dayBorrow |-> Zero, dayRepay |-> Zero]

\* lines 306-312
DebtPeriodInterest(previousBalance, currentBalance) ==
    LET previousScaledVariableDebt == BigInt(previousBalance.scaledVariableDebt)
        currentIndex               == BigInt(currentBalance.index)
        previousIndex              == BigInt(previousBalance.index)
        periodInterest == BigDiv(BigMul(previousScaledVariableDebt,
                                        BigSub(currentIndex, previousIndex)), RAY)
    IN  IF BigGT(periodInterest, Zero) THEN periodInterest ELSE Zero

\* lines 316-325
DebtDailyDetail(currentBalance, dayTotalInterest, totalInterest, move) ==
    [date              |-> formatDateYYYYMMDD(currentBalance.timestamp),
     timestamp         |-> currentBalance.timestamp,
     debt              |-> BigToString(BigInt(currentBalance.currentVariableDebt)),
     periodInterest    |-> BigToString(dayTotalInterest),
     totalInterest     |-> BigToString(BigAdd(totalInterest, dayTotalInterest)),
     transactionAmount |-> IF BigGT(move.dayBorrow, Zero) THEN BigToString(move.dayBorrow)
                           ELSE IF BigGT(move.dayRepay, Zero)
                                THEN BigToString(move.dayRepay) ELSE Str0,
     transactionType   |-> IF BigGT(move.dayBorrow, Zero) THEN "borrow"
                           ELSE IF BigGT(move.dayRepay, Zero) THEN "repay"
                           ELSE "none",
     source            |-> "real"]

\* lines 327-329 and the running sums of lines 276-303
DebtAccumulate(acc, currentBalance, move, dayTotalInterest) ==
    [dailyDetails  |-> Append(acc.dailyDetails,
                              DebtDailyDetail(currentBalance, dayTotalInterest,
                                              acc.totalInterest, move)),
     totalInterest |-> BigAdd(acc.totalInterest, dayTotalInterest),
     currentDebt   |-> BigInt(currentBalance.currentVariableDebt),
     totalBorrows  |-> BigAdd(acc.totalBorrows, move.dayBorrow),
     totalRepays   |-> BigAdd(acc.totalRepays, move.dayRepay)]

\* one turn of the loop of lines 258-330
DebtStep(periodBalances, i, acc) ==
    DebtAccumulate(acc, periodBalances[i],
        IF i = 1 THEN DebtFirstMovement(periodBalances[i], acc.currentDebt)
        ELSE DebtMovement(periodBalances[i - 1], periodBalances[i]),
        IF i = 1 THEN Zero
        ELSE DebtPeriodInterest(periodBalances[i - 1], periodBalances[i]))

RECURSIVE DebtLoop(_, _, _)
DebtLoop(periodBalances, i, acc) ==
    IF i > Len(periodBalances) THEN acc
    ELSE DebtLoop(periodBalances, i + 1, DebtStep(periodBalances, i, acc))

\* lines 334-343
DebtResult(acc) ==
    [totalInterest |-> BigToString(acc.totalInterest),
     dailyDetails  |-> acc.dailyDetails,
     summary       |-> [totalBorrows  |-> BigToString(acc.totalBorrows),
                        totalRepays   |-> BigToString(acc.totalRepays),
                        currentDebt   |-> BigToString(acc.currentDebt),
                        totalInterest |-> BigToString(acc.totalInterest)]]

\* lines 239-330 on the balances of the requested token
DebtSeries(tokenBalances) ==
    IF Len(tokenBalances) = 0 THEN createEmptyResult("debt")
    ELSE DebtResult(DebtLoop(PeriodBalances(tokenBalances), 1,
                       [dailyDetails |-> <<>>, totalInterest |-> Zero,
                        currentDebt |-> Zero, totalBorrows |-> Zero,
                        totalRepays |-> Zero]))

calculateDebtInterestFromBalances(vtokenBalances, token) ==
    IF vtokenBalances = Null \/ Len(vtokenBalances) = 0 THEN createEmptyResult("debt")
    ELSE DebtSeries(FilterToken(vtokenBalances, token))

(***************************************************************************)
(* The state: the balance history the indexer returned (allBalances), the  *)
(* engine call made on it and the value it returned.                       *)
(***************************************************************************)
VARIABLES allBalances, pc, call, result

vars == <<allBalances, pc, call, result>>

MaxLen == 3

Repeat(c, n) == [j \in 1..n |-> c]

\* 2024-03-01 10:00 and 18:00, 2024-03-02 12:00, 2024-03-03 12:00 (UTC)
Timestamps == {1709287200, 1709316000, 1709380800, 1709467200}

ScaledBalances == {IntToString(1000, 1), IntToString(1500, 1)}

\* 1.00 * 10^27 and 1.05 * 10^27
Indexes == {IntToString(100, 1) \o Repeat("0", 25), IntToString(105, 1) \o Repeat("0", 25)}

Tokens == {"USDC", "WXDAI"}

TenPow27 == MkBig(FALSE, NatPow(NatOf(10), 27))

\* the balance the protocol reports for a scaled balance at an index
RawBalance(scaled, index) ==
    BigToString(BigDiv(BigMul(BigInt(scaled), BigInt(index)), TenPow27))

Snapshot(timestamp, scaled, index, symbol) ==
    [timestamp |-> timestamp, balance |-> RawBalance(scaled, index),
     scaled |-> scaled, index |-> index, symbol |-> symbol]

\* every USDC snapshot over the sets above, and three more: a step of one
\* scaled unit at the initial index, a third index level, another reserve
Snapshots ==
    {Snapshot(t, sc, ix, "USDC") : t \in Timestamps, sc \in ScaledBalances, ix \in Indexes}
    \cup {Snapshot(1709380800, IntToString(1001, 1),
                   IntToString(100, 1) \o Repeat("0", 25), "USDC"),
          Snapshot(1709467200, IntToString(1500, 1),
                   IntToString(110, 1) \o Repeat("0", 25), "USDC"),
          Snapshot(1709316000, IntToString(1500, 1),
                   IntToString(105, 1) \o Repeat("0", 25), "WXDAI")}

SnapshotLists == UNION {[1..n -> Snapshots] : n \in 0..MaxLen}

\* an atokenBalanceHistoryItem / vtokenBalanceHistoryItem of the indexer
ATokenItem(s) ==
    [timestamp |-> s.timestamp, currentATokenBalance |-> s.balance,
     scaledATokenBalance |-> s.scaled, index |-> s.index, symbol |-> s.symbol]

VTokenItem(s) ==
    [timestamp |-> s.timestamp, currentVariableDebt |-> s.balance,
     scaledVariableDebt |-> s.scaled, index |-> s.index, symbol |-> s.symbol]

NoCall == [side |-> "none", token |-> "none"]

Init ==
    /\ \E list \in SnapshotLists :
          allBalances = [atoken |-> [j \in 1..Len(list) |-> ATokenItem(list[j])],
                         vtoken |-> [j \in 1..Len(list) |-> VTokenItem(list[j])]]
    /\ pc = "fetched"
    /\ call = NoCall
    /\ result = createEmptyResult("supply")

CalculateSupplyInterest(token) ==
    /\ pc = "fetched"
    /\ result' = calculateSupplyInterestFromBalances(allBalances.atoken, token)
    /\ call' = [side |-> "supply", token |-> token]
    /\ pc' = "done"
    /\ UNCHANGED allBalances

CalculateDebtInterest(token) ==
    /\ pc = "fetched"
    /\ result' = calculateDebtInterestFromBalances(allBalances.vtoken, token)
    /\ call' = [side |-> "debt", token |-> token]
    /\ pc' = "done"
    /\ UNCHANGED allBalances

Next ==
    \E token \in Tokens :
        \/ CalculateSupplyInterest(token)
        \/ CalculateDebtInterest(token)

Spec == Init /\ [][Next]_vars

(***************************************************************************)
(* Vocabulary of the properties: the call that was made, read back from    *)
(* the state, and the arithmetic the properties are stated in.             *)
(***************************************************************************)
Done == pc = "done"

Details == result.dailyDetails

Input == IF call.side = "debt" THEN allBalances.vtoken ELSE allBalances.atoken

ScaledOf(b) == IF call.side = "debt" THEN b.scaledVariableDebt ELSE b.scaledATokenBalance

BalanceOf(b) == IF call.side = "debt" THEN b.currentVariableDebt ELSE b.currentATokenBalance

DetailBalance(d) == IF call.side = "debt" THEN d.debt ELSE d.supply

IncreaseType == IF call.side = "debt" THEN "borrow" ELSE "supply"

DecreaseType == IF call.side = "debt" THEN "repay" ELSE "withdraw"

\* positions of the snapshots of the requested token, and their calendar days
TokenIdx == {j \in 1..Len(Input) : Input[j].symbol = call.token}

DayOf(j) == Input[j].timestamp \div 86400

TokenDays == {DayOf(j) : j \in TokenIdx}

\* the snapshots of a day that carry the greatest timestamp of that day
LatestOfDay(day) ==
    {j \in TokenIdx : /\ DayOf(j) = day
                      /\ \A k \in TokenIdx :
                            DayOf(k) = day => Input[k].timestamp <= Input[j].timestamp}

\* one snapshot per day: among the latest of a day, the last one of the input
KeptIdx == {j \in TokenIdx : /\ j \in LatestOfDay(DayOf(j))
                             /\ \A k \in LatestOfDay(DayOf(j)) : k <= j}

\* the kept snapshot of the i-th day in ascending order
KeptAt(i) ==
    Input[CHOOSE j \in KeptIdx :
            Cardinality({k \in KeptIdx : Input[k].timestamp < Input[j].timestamp}) = i - 1]

\* q is the quotient of n by d, for n >= 0 and d > 0:  q * d <= n < (q + 1) * d
QuotientIs(q, n, d) ==
    /\ ~q.neg
    /\ BigCmp(BigMul(q, d), n) <= 0
    /\ BigCmp(n, BigMul(BigAdd(q, BigOf(1)), d)) < 0

\* scaled[i-1] * (index[i] - index[i-1])
InterestNumerator(prev, cur) ==
    BigMul(BigInt(ScaledOf(prev)), BigSub(BigInt(cur.index), BigInt(prev.index)))

\* p is the period interest the rule gives between two kept snapshots with
\* the divisor ray: the truncating quotient when that is positive, else zero
InterestIs(p, prev, cur, ray) ==
    IF BigCmp(InterestNumerator(prev, cur), ray) >= 0
    THEN QuotientIs(p, InterestNumerator(prev, cur), ray)
    ELSE p = Zero

\* scaled[i] - scaled[i-1]
DeltaScaled(prev, cur) == BigSub(BigInt(ScaledOf(cur)), BigInt(ScaledOf(prev)))

\* |deltaScaled| * index[i]
MovementNumerator(prev, cur) ==
    BigMul(MkBig(FALSE, DeltaScaled(prev, cur).mag), BigInt(cur.index))

\* what one calculation returns for a list of snapshots, on the side and for
\* the token of the call that was made
Engine(list) ==
    IF call.side = "debt" THEN calculateDebtInterestFromBalances(list, call.token)
    ELSE calculateSupplyInterestFromBalances(list, call.token)

\* the period interest follows the rule with the divisor the code divides by
InterestFollowsCodeDivisor ==
    Done =>
        \A i \in 2..Len(Details) :
            InterestIs(BigInt(Details[i].periodInterest), KeptAt(i - 1), KeptAt(i), RAY)

(***************************************************************************)
(* C1: for every point i > 0 of either engine, periodInterest[i] is the    *)
(* truncating quotient (scaled[i-1] * (index[i] - index[i-1])) / 10^27     *)
(* taken with the previous point's scaled balance; when the quotient is    *)
(* not positive (index regression) periodInterest[i] is 0 and              *)
(* totalInterest does not change at that step.                             *)
(***************************************************************************)
C1_PeriodInterestFromPreviousScaled ==
    Done =>
        \A i \in 2..Len(Details) :
            /\ InterestIs(BigInt(Details[i].periodInterest),
                          KeptAt(i - 1), KeptAt(i), TenPow27)
            /\ InterestNumerator(KeptAt(i - 1), KeptAt(i)).neg =>
                  /\ Details[i].periodInterest = Str0
                  /\ Details[i].totalInterest = Details[i - 1].totalInterest

(***************************************************************************)
(* C2: the constant RAY that divides every interest and movement amount    *)
(* equals exactly 10^27.                                                   *)
(***************************************************************************)
C2_RayIsTenPow27 == Done => RAY = TenPow27

(***************************************************************************)
(* C3 (scenario A): two snapshots on two different days, both with scaled  *)
(* balance 1000, index 1.0 * 10^27 then 1.05 * 10^27: the supply engine    *)
(* reports periodInterest = 50 and totalInterest = 50 for the second day.  *)
(***************************************************************************)
IsScenario(list, scaled1, index1, scaled2, index2) ==
    /\ Len(list) = 2
    /\ list[1].symbol = "USDC" /\ list[2].symbol = "USDC"
    /\ list[1].timestamp \div 86400 < list[2].timestamp \div 86400
    /\ list[1].scaledATokenBalance = IntToString(scaled1, 1)
    /\ list[2].scaledATokenBalance = IntToString(scaled2, 1)
    /\ list[1].index = IntToString(index1, 1) \o Repeat("0", 25)
    /\ list[2].index = IntToString(index2, 1) \o Repeat("0", 25)

SupplyCallOnUSDC == Done /\ call.side = "supply" /\ call.token = "USDC"

C3_ScenarioA ==
    (SupplyCallOnUSDC /\ IsScenario(allBalances.atoken, 1000, 100, 1000, 105)) =>
        /\ Len(Details) = 2
        /\ Details[2].periodInterest = IntToString(50, 1)
        /\ Details[2].totalInterest = IntToString(50, 1)

(***************************************************************************)
(* C4: for every point i > 0 the movement is classified by the sign of     *)
(* deltaScaled = scaled[i] - scaled[i-1]: positive is an increase (supply, *)
(* or borrow on the debt side), negative a decrease (withdraw, or repay),  *)
(* zero no movement (type none, amount "0"); the reported amount is the    *)
(* quotient (|deltaScaled| * index[i]) / 10^27, at the current index.      *)
(***************************************************************************)
C4_MovementBySignOfDeltaScaled ==
    Done =>
        \A i \in 2..Len(Details) :
            IF DeltaScaled(KeptAt(i - 1), KeptAt(i)) = Zero
            THEN /\ Details[i].transactionType = "none"
                 /\ Details[i].transactionAmount = Str0
            ELSE /\ Details[i].transactionType =
                        IF DeltaScaled(KeptAt(i - 1), KeptAt(i)).neg
                        THEN DecreaseType ELSE IncreaseType
                 /\ QuotientIs(BigInt(Details[i].transactionAmount),
                               MovementNumerator(KeptAt(i - 1), KeptAt(i)), TenPow27)

(***************************************************************************)
(* C5 (scenario B): a snapshot with scaled balance 1000 and index          *)
(* 1.0 * 10^27, then on a later day one with scaled balance 1500 and the   *)
(* same index: the supply engine reports for the second day                *)
(* periodInterest = 0, transactionAmount = 500, transactionType = supply.  *)
(***************************************************************************)
C5_ScenarioB ==
    (SupplyCallOnUSDC /\ IsScenario(allBalances.atoken, 1000, 100, 1500, 100)) =>
        /\ Len(Details) = 2
        /\ Details[2].periodInterest = Str0
        /\ Details[2].transactionAmount = IntToString(500, 1)
        /\ Details[2].transactionType = "supply"

(***************************************************************************)
(* C6: when several snapshots of the requested token fall on one calendar  *)
(* day, exactly one point is emitted for that day; it carries the          *)
(* timestamp and balance of a snapshot with the greatest timestamp of the  *)
(* day, and the next day's interest and movement are computed against      *)
(* that kept snapshot's scaled balance and index.                          *)
(***************************************************************************)
C6_DuplicateDayCollapse ==
    Done =>
        /\ \A day \in TokenDays :
              Cardinality({i \in 1..Len(Details) :
                              Details[i].timestamp \div 86400 = day}) = 1
        /\ \A i \in 1..Len(Details) :
              /\ KeptAt(i).timestamp \div 86400 = Details[i].timestamp \div 86400
              /\ \A j \in TokenIdx :
                    DayOf(j) = Details[i].timestamp \div 86400
                        => Input[j].timestamp <= KeptAt(i).timestamp
              /\ Details[i].timestamp = KeptAt(i).timestamp
              /\ DetailBalance(Details[i]) = BalanceOf(KeptAt(i))
        /\ \A i \in 2..Len(Details) :
              /\ InterestIs(BigInt(Details[i].periodInterest),
                            KeptAt(i - 1), KeptAt(i), RAY)
              /\ QuotientIs(BigInt(Details[i].transactionAmount),
                            MovementNumerator(KeptAt(i - 1), KeptAt(i)), RAY)

\* a day with two snapshots of different timestamps, scaled balances and
\* balances, the earlier one later in the input, and a next day with an
\* interest and a movement
C6_Witness ==
    /\ Done
    /\ Len(Details) >= 2
    /\ \E j, k \in TokenIdx :
          /\ j < k
          /\ DayOf(j) = DayOf(k)
          /\ DayOf(j) = Details[1].timestamp \div 86400
          /\ Input[j].timestamp > Input[k].timestamp
          /\ ScaledOf(Input[j]) # ScaledOf(Input[k])
          /\ BalanceOf(Input[j]) # BalanceOf(Input[k])
    /\ Details[2].periodInterest # Str0
    /\ Details[2].transactionType # "none"

(***************************************************************************)
(* C7: the returned series has exactly one entry per calendar day on which *)
(* the requested token had a snapshot, no two entries share a date, and    *)
(* the entries are in strictly ascending timestamp order.                  *)
(***************************************************************************)
C7_OneEntryPerDayAscending ==
    Done =>
        /\ Len(Details) = Cardinality(TokenDays)
        /\ \A day \in TokenDays :
              \E i \in 1..Len(Details) : Details[i].timestamp \div 86400 = day
        /\ \A i, k \in 1..Len(Details) :
              i < k => /\ Details[i].date # Details[k].date
                       /\ Details[i].timestamp < Details[k].timestamp

\* an input out of timestamp order with two snapshots on one day and
\* snapshots on two days at least
C7_Witness ==
    /\ Done
    /\ Len(Details) >= 2
    /\ Cardinality(TokenIdx) > Len(Details)
    /\ \E j, k \in TokenIdx : j < k /\ Input[j].timestamp > Input[k].timestamp

(***************************************************************************)
(* C8: order invariance: for every permutation of the input snapshot list  *)
(* the engine returns the same dailyDetails series as for the              *)
(* timestamp-sorted input.                                                 *)
(***************************************************************************)
Permuted(list, p) == [j \in 1..Len(list) |-> list[p[j]]]

C8_OrderInvariance ==
    Done =>
        \A p \in Permutations(1..Len(Input)) :
            Engine(Permuted(Input, p)).dailyDetails =
                Engine(SortByTimestamp(Input)).dailyDetails

(***************************************************************************)
(* C9: conservation: totalInterest[0] = periodInterest[0], and             *)
(* totalInterest[i] = totalInterest[i-1] + periodInterest[i] for i > 0, so *)
(* the last totalInterest is the sum of all periodInterest of the series.  *)
(***************************************************************************)
RECURSIVE SumPeriodInterest(_, _)
SumPeriodInterest(details, n) ==
    IF n = 0 THEN Zero
    ELSE BigAdd(SumPeriodInterest(details, n - 1), BigInt(details[n].periodInterest))

C9_Conservation ==
    (Done /\ Len(Details) > 0) =>
        /\ Details[1].totalInterest = Details[1].periodInterest
        /\ \A i \in 2..Len(Details) :
              BigInt(Details[i].totalInterest) =
                  BigAdd(BigInt(Details[i - 1].totalInterest),
                         BigInt(Details[i].periodInterest))
        /\ BigInt(Details[Len(Details)].totalInterest) =
              SumPeriodInterest(Details, Len(Details))

\* three days with an interest on the second and on the third
C9_Witness ==
    /\ Done
    /\ Len(Details) = 3
    /\ Details[2].periodInterest # Str0
    /\ Details[3].periodInterest # Str0
    /\ Details[3].totalInterest # Details[3].periodInterest

(***************************************************************************)
(* C10: non-negativity: when the index of the snapshots is non-decreasing  *)
(* in timestamp order, every point has periodInterest >= 0 and             *)
(* totalInterest never decreases from a point to the next.                 *)
(***************************************************************************)
IndexNonDecreasing ==
    \A j, k \in TokenIdx :
        Input[j].timestamp < Input[k].timestamp
            => BigCmp(BigInt(Input[j].index), BigInt(Input[k].index)) <= 0

C10_NonNegativity ==
    (Done /\ IndexNonDecreasing) =>
        /\ \A i \in 1..Len(Details) : ~BigInt(Details[i].periodInterest).neg
        /\ \A i \in 2..Len(Details) :
              BigCmp(BigInt(Details[i - 1].totalInterest),
                     BigInt(Details[i].totalInterest)) <= 0

\* a valid input of two days at least whose index rose
C10_Witness ==
    /\ Done
    /\ IndexNonDecreasing
    /\ Len(Details) >= 2
    /\ Details[Len(Details)].periodInterest # Str0
    /\ BigCmp(BigInt(Details[1].totalInterest),
              BigInt(Details[Len(Details)].totalInterest)) < 0

(***************************************************************************)
(* C11: the first point of a series has periodInterest 0 and, when its raw *)
(* balance is greater than 0, carries an initial increase movement whose   *)
(* amount is that raw balance (supply on the supply side, borrow on the    *)
(* debt side), in the supply engine and in the debt engine alike.          *)
(***************************************************************************)
C11_FirstPointInitialMovement ==
    (Done /\ Len(Details) > 0) =>
        /\ Details[1].periodInterest = Str0
        /\ BigGT(BigInt(DetailBalance(Details[1])), Zero) =>
              /\ Details[1].transactionType = IncreaseType
              /\ Details[1].transactionAmount = DetailBalance(Details[1])

(***************************************************************************)
(* Extension of a series to the present moment                             *)
(***************************************************************************)
\* lastPoint.debt || 0, lastPoint.supply || 0: the balance field of a point
PointBalance(point, balanceType) ==
    IF balanceType = "debt" THEN point.debt ELSE point.supply

\* lines 531-540: the point of today; [balanceType] names its balance field
TodayPoint(today, currentBalance, balanceType, periodInterest, totalInterest) ==
    IF balanceType = "debt"
    THEN [date |-> formatDateYYYYMMDD(today), timestamp |-> today,
          debt |-> currentBalance,
          periodInterest |-> periodInterest, totalInterest |-> totalInterest,
          transactionAmount |-> Str0, transactionType |-> "BalanceOf",
          source |-> "real"]
    ELSE [date |-> formatDateYYYYMMDD(today), timestamp |-> today,
          supply |-> currentBalance,
          periodInterest |-> periodInterest, totalInterest |-> totalInterest,
          transactionAmount |-> Str0, transactionType |-> "BalanceOf",
          source |-> "real"]

\* line 523
TodayPeriodInterest(lastPoint, currentBalance, balanceType) ==
    BigSub(BigInt(currentBalance), BigInt(PointBalance(lastPoint, balanceType)))

\* a point of today that carries no interest of its own
addTodayPointWithoutInterest(dailyDetails, currentBalance, balanceType, token, today) ==
    IF Len(dailyDetails) = 0 THEN dailyDetails
    ELSE Append(dailyDetails,
                TodayPoint(today, currentBalance, balanceType, Str0,
                           dailyDetails[Len(dailyDetails)].totalInterest))

\* lines 517-546; today is the clock read by new Date(), in seconds
addTodayPoint(dailyDetails, currentBalance, balanceType, token, today) ==
    IF Len(dailyDetails) = 0 THEN dailyDetails
    ELSE Append(dailyDetails,
                TodayPoint(today, currentBalance, balanceType,
                    BigToString(TodayPeriodInterest(dailyDetails[Len(dailyDetails)],
                                                    currentBalance, balanceType)),
                    BigToString(BigAdd(
                        BigInt(dailyDetails[Len(dailyDetails)].totalInterest),
                        TodayPeriodInterest(dailyDetails[Len(dailyDetails)],
                                            currentBalance, balanceType)))))

\* a V2 extension that would write the point of today over the last point
addTodayPointV2Overwriting(dailyDetails, currentBalance, balanceType, today) ==
    IF Len(dailyDetails) = 0 THEN dailyDetails
    ELSE [dailyDetails EXCEPT ![Len(dailyDetails)] =
            TodayPoint(today, currentBalance, balanceType, Str0,
                       dailyDetails[Len(dailyDetails)].totalInterest)]

\* part_004 lines 520-546
addTodayPointV2(dailyDetails, currentBalance, balanceType, today) ==
    IF Len(dailyDetails) = 0 THEN dailyDetails
    ELSE Append(dailyDetails,
                TodayPoint(today, currentBalance, balanceType, Str0,
                           dailyDetails[Len(dailyDetails)].totalInterest))

\* part_004 lines 562-576: the increase over the point's own balance, less
\* the movement already recorded on the point
LastPointPeriodInterest(lastPoint, currentBalance, balanceType) ==
    BigSub(IF BigGT(BigInt(currentBalance), BigInt(PointBalance(lastPoint, balanceType)))
           THEN BigSub(BigInt(currentBalance),
                       BigInt(PointBalance(lastPoint, balanceType)))
           ELSE Zero,
           BigInt(lastPoint.transactionAmount))

\* part_004 lines 551-590
calculateLastPointInterestV2(lastPoint, currentBalance, balanceType) ==
    IF currentBalance = <<>> THEN lastPoint
    ELSE [lastPoint EXCEPT
            !.periodInterest = BigToString(LastPointPeriodInterest(lastPoint,
                                              currentBalance, balanceType)),
            !.totalInterest = BigToString(BigAdd(BigInt(lastPoint.totalInterest),
                                  LastPointPeriodInterest(lastPoint, currentBalance,
                                                          balanceType))),
            !.transactionAmount = Str0,
            !.transactionType = "BalanceOf",
            !.source = "rpc"]

\* part_004 lines 382-387: dailyDetails[lastPointIndex] = calculateLastPointInterestV2(...)
UpdateLastPointV2(dailyDetails, currentBalance, balanceType) ==
    [dailyDetails EXCEPT ![Len(dailyDetails)] =
        calculateLastPointInterestV2(dailyDetails[Len(dailyDetails)],
                                     currentBalance, balanceType)]

\* part_004 lines 105-347: the V2 engines are the V3 ones for the one symbol
calculateSupplyInterestFromBalancesV2(atokenBalances) ==
    calculateSupplyInterestFromBalances(atokenBalances, "rmmWXDAI")

calculateDebtInterestFromBalancesV2(vtokenBalances) ==
    calculateDebtInterestFromBalances(vtokenBalances, "rmmWXDAI")

\* the clock at the time of the request: 2024-03-03 16:00 and 2024-03-04 12:00 UTC
NowTimes == {1709481600, 1709553600}

\* what getCurrentBalances hands over: null when the RPC read failed, else
\* the balance string of the token (or "0" when its entry is missing)
RpcReads ==
    {[ok |-> FALSE, balance |-> Str0]}
    \cup {[ok |-> TRUE, balance |-> b] :
            b \in {Str0, IntToString(1000, 1), IntToString(1600, 1)}}

\* the snapshots as the V2 indexer labels them
AsV2(s) == [s EXCEPT !.symbol = IF s.symbol = "USDC" THEN "rmmWXDAI" ELSE s.symbol]

TodayLists == UNION {[1..n -> Snapshots] : n \in 0..(MaxLen - 1)}

InitToday ==
    /\ \E list \in TodayLists, v2 \in BOOLEAN :
          allBalances =
              [atoken |-> [j \in 1..Len(list) |->
                              ATokenItem(IF v2 THEN AsV2(list[j]) ELSE list[j])],
               vtoken |-> [j \in 1..Len(list) |->
                              VTokenItem(IF v2 THEN AsV2(list[j]) ELSE list[j])]]
    /\ pc = "fetched"
    /\ call = NoCall
    /\ result = createEmptyResult("supply")

CalculateSupplyInterestV2 ==
    /\ pc = "fetched"
    /\ result' = calculateSupplyInterestFromBalancesV2(allBalances.atoken)
    /\ call' = [side |-> "supply", token |-> "rmmWXDAI"]
    /\ pc' = "doneV2"
    /\ UNCHANGED allBalances

CalculateDebtInterestV2 ==
    /\ pc = "fetched"
    /\ result' = calculateDebtInterestFromBalancesV2(allBalances.vtoken)
    /\ call' = [side |-> "debt", token |-> "rmmWXDAI"]
    /\ pc' = "doneV2"
    /\ UNCHANGED allBalances

\* the call as it is remembered once the series has been extended
ExtendedCall(today, rpc, extended) ==
    [side |-> call.side, token |-> call.token, today |-> today,
     currentBalance |-> rpc.balance, extended |-> extended,
     before |-> result.dailyDetails]

\* lines 376-391: the point of today is added to a non-empty series when
\* the current balances could be read
AddTodayPointStep ==
    /\ pc = "done"
    /\ \E today \in NowTimes, rpc \in RpcReads :
          /\ result' = IF Len(result.dailyDetails) > 0 /\ rpc.ok
                       THEN [result EXCEPT !.dailyDetails =
                               addTodayPoint(result.dailyDetails, rpc.balance,
                                             call.side, call.token, today)]
                       ELSE result
          /\ call' = ExtendedCall(today, rpc, Len(result.dailyDetails) > 0 /\ rpc.ok)
    /\ pc' = "extended"
    /\ UNCHANGED allBalances

\* part_004 lines 374-403
AddTodayPointStepV2 ==
    /\ pc = "doneV2"
    /\ \E today \in NowTimes, rpc \in RpcReads :
          /\ result' = IF Len(result.dailyDetails) > 0 /\ rpc.ok
                       THEN [result EXCEPT !.dailyDetails =
                               UpdateLastPointV2(
                                   addTodayPointV2(result.dailyDetails, rpc.balance,
                                                   call.side, today),
                                   rpc.balance, call.side)]
                       ELSE result
          /\ call' = ExtendedCall(today, rpc, Len(result.dailyDetails) > 0 /\ rpc.ok)
    /\ pc' = "extendedV2"
    /\ UNCHANGED allBalances

NextToday ==
    \/ \E token \in Tokens : CalculateSupplyInterest(token)
    \/ \E token \in Tokens : CalculateDebtInterest(token)
    \/ CalculateSupplyInterestV2
    \/ CalculateDebtInterestV2
    \/ AddTodayPointStep
    \/ AddTodayPointStepV2

SpecToday == InitToday /\ [][NextToday]_vars

\* the series has been extended by the V3 or by the V2 request
ExtendedV3 == pc = "extended" /\ call.extended

ExtendedV2 == pc = "extendedV2" /\ call.extended

LastBefore == call.before[Len(call.before)]

TailPoint == Details[Len(Details)]

(***************************************************************************)
(* C12: direct policy (V3): addTodayPoint on a non-empty series adds one   *)
(* final point at the current time whose balance is the freshly read       *)
(* balance, whose periodInterest is that balance minus the balance of the  *)
(* last existing point, and whose totalInterest is the last existing       *)
(* point's totalInterest plus that periodInterest.                         *)
(***************************************************************************)
C12_TodayPointDirectPolicy ==
    ExtendedV3 =>
        /\ Len(Details) = Len(call.before) + 1
        /\ TailPoint.timestamp = call.today
        /\ DetailBalance(TailPoint) = call.currentBalance
        /\ BigInt(TailPoint.periodInterest) =
              BigSub(BigInt(call.currentBalance), BigInt(DetailBalance(LastBefore)))
        /\ BigInt(TailPoint.totalInterest) =
              BigAdd(BigInt(LastBefore.totalInterest), BigInt(TailPoint.periodInterest))

\* a series with accrued interest extended by a balance that differs from
\* the last one
C12_Witness ==
    /\ ExtendedV3
    /\ LastBefore.totalInterest # Str0
    /\ TailPoint.periodInterest # Str0
    /\ TailPoint.totalInterest # TailPoint.periodInterest

(***************************************************************************)
(* C13: when the last existing point's date is today's date, extending the *)
(* series replaces that point instead of appending one, so the extended    *)
(* series never holds two points with the same date.                       *)
(***************************************************************************)
C13_TodayReplacesSameDate ==
    ((ExtendedV3 \/ ExtendedV2) /\ LastBefore.date = formatDateYYYYMMDD(call.today)) =>
        /\ Len(Details) = Len(call.before)
        /\ \A i, k \in 1..Len(Details) : i < k => Details[i].date # Details[k].date

(***************************************************************************)
(* C14: extending a series to now (V3: addTodayPoint; V2: addTodayPointV2  *)
(* then calculateLastPointInterestV2) leaves every field of every point up *)
(* to and including the last indexed snapshot unchanged; only the tail     *)
(* point is new.                                                           *)
(***************************************************************************)
C14_ExtensionKeepsHistory ==
    (pc = "extended" \/ pc = "extendedV2") =>
        /\ Len(Details) = Len(call.before) + (IF call.extended THEN 1 ELSE 0)
        /\ \A i \in 1..Len(call.before) : Details[i] = call.before[i]

\* a V2 series of two days with accrued interest, extended
C14_Witness ==
    /\ ExtendedV2
    /\ Len(call.before) >= 2
    /\ LastBefore.totalInterest # Str0
    /\ Len(Details) = Len(call.before) + 1

(***************************************************************************)
(* The balance read: eth_call balanceOf, then hexadecimal to decimal       *)
(***************************************************************************)
\* the decimal c * 10^e nearest to v among those the double v reads back
\* from, or <<>> when neither neighbour with that many digits reads back
NearestReadingBack(v, lo, scale) ==
    IF scale = <<>> \/ lo = <<>> \/ v = <<>> THEN <<>>
    ELSE IF RoundToDouble(NatMul(lo, scale)) = v
    THEN IF /\ RoundToDouble(NatMul(NatAdd(lo, <<1>>), scale)) = v
            /\ NatCmp(NatSub(NatMul(NatAdd(lo, <<1>>), scale), v),
                      NatSub(v, NatMul(lo, scale))) < 0
         THEN NatMul(NatAdd(lo, <<1>>), scale)
         ELSE NatMul(lo, scale)
    ELSE IF RoundToDouble(NatMul(NatAdd(lo, <<1>>), scale)) = v
         THEN NatMul(NatAdd(lo, <<1>>), scale)
         ELSE <<>>

\* Number::toString step 5: the fewest significant digits k in lo..hi with
\* which a decimal reads back as the double v (by bisection: a decimal of k
\* digits is one of k + 1 digits too); n is the number of digits of v
RECURSIVE ShortestDigitsIn(_, _, _, _)
ShortestDigitsIn(v, n, lo, hi) ==
    IF lo = hi THEN lo
    ELSE IF NearestReadingBack(v, NatDiv(v, NatPow(<<10>>, n - (lo + hi) \div 2)),
                               NatPow(<<10>>, n - (lo + hi) \div 2)) # <<>>
         THEN ShortestDigitsIn(v, n, lo, (lo + hi) \div 2)
         ELSE ShortestDigitsIn(v, n, (lo + hi) \div 2 + 1, hi)

ShortestDecimalOf(v, n, k) ==
    IF k >= n THEN v      \* every digit of v kept
    ELSE NearestReadingBack(v, NatDiv(v, NatPow(<<10>>, n - k)), NatPow(<<10>>, n - k))

\* 17 significant digits tell any two doubles apart
ShortestDecimal(v) ==
    IF BitLength(v) <= 53 THEN v
    ELSE ShortestDecimalOf(v, Len(NatToString(v)),
                           ShortestDigitsIn(v, Len(NatToString(v)), 1,
                               IF Len(NatToString(v)) < 17
                               THEN Len(NatToString(v)) ELSE 17))

\* the digits without their trailing zeros
RECURSIVE StripTrailingZeros(_)
StripTrailingZeros(ds) ==
    IF Len(ds) > 1 /\ ds[Len(ds)] = "0"
    THEN StripTrailingZeros(SubSeq(ds, 1, Len(ds) - 1))
    ELSE ds

\* d.ddde+XX of a decimal given by its digits
Exponential(ds, significant) ==
    <<significant[1]>>
    \o (IF Len(significant) > 1 THEN <<".">> \o Tail(significant) ELSE <<>>)
    \o <<"e", "+">> \o IntToString(Len(ds) - 1, 1)

\* Number.prototype.toString() of a double holding a non-negative integer:
\* plain digits below 10^21, exponential notation from there on
NumberDigitsToString(ds) ==
    IF Len(ds) <= 21 THEN ds ELSE Exponential(ds, StripTrailingZeros(ds))

NumberToString(v) == NumberDigitsToString(NatToString(ShortestDecimal(v)))

NaNString == <<"N", "a", "N">>

\* parseInt(string, 16).toString(): the 0x prefix is skipped, the digits are
\* read up to the first one that is not hexadecimal, the value is rounded to
\* a double
RECURSIVE HexPrefixLength(_, _)
HexPrefixLength(s, i) ==
    IF i <= Len(s) /\ IsHexDigit(s[i]) THEN HexPrefixLength(s, i + 1) ELSE i - 1

ParseIntDigits16(digits) ==
    IF HexPrefixLength(digits, 1) = 0 THEN NaNString
    ELSE NumberToString(RoundToDouble(
             HexLimbs(digits, 1, HexPrefixLength(digits, 1))))

ParseInt16ToString(s) ==
    ParseIntDigits16(IF HasHexPrefix(StrTrim(s))
                     THEN SubSeq(StrTrim(s), 3, Len(StrTrim(s))) ELSE StrTrim(s))

\* the hexadecimal digits of a machine-size natural, at least `width` of them
RECURSIVE IntToHex(_, _)
IntToHex(n, width) ==
    IF n < 16 /\ width <= 1 THEN <<HexDigits[n + 1]>>
    ELSE IntToHex(n \div 16, width - 1) \o <<HexDigits[(n % 16) + 1]>>

\* the 32-byte word balanceOf returns for high * 16^shift + low
Uint256Word(high, shift, low) ==
    <<"0", "x">> \o Repeat("0", 64 - shift - 2) \o IntToHex(high, 2)
    \o (IF shift = 0 THEN <<>> ELSE Repeat("0", shift - 1) \o IntToHex(low, 1))

\* the answers of the node to one balanceOf call: no answer at all, an
\* answer without a result, or a result word; the words go up to
\* 255 * 16^MaxShift + 1, past 2^53 and past 10^21
MaxShift == 18

RpcAnswers ==
    {[ok |-> FALSE, hasResult |-> FALSE, high |-> 0, shift |-> 0, low |-> 0],
     [ok |-> TRUE, hasResult |-> FALSE, high |-> 0, shift |-> 0, low |-> 0]}
    \cup {[ok |-> TRUE, hasResult |-> TRUE, high |-> h, shift |-> sh, low |-> l] :
            h \in {0, 1, 32, 255},
            sh \in {0, 3, 12, 13, 14, 16, 17, MaxShift},
            l \in {0, 1}}

\* lines 81-98: the entry of one token
BalanceEntry(answer) ==
    IF answer.hasResult
    THEN BigToString(BigInt(Uint256Word(answer.high, answer.shift, answer.low)))
    ELSE Str0

\* lines 41-107: null when the request failed or threw
getCurrentBalances(answer) ==
    IF ~answer.ok THEN [ok |-> FALSE, balance |-> Str0]
    ELSE IF answer.hasResult
            /\ BigIntThrows(Uint256Word(answer.high, answer.shift, answer.low))
    THEN [ok |-> FALSE, balance |-> Str0]
    ELSE [ok |-> TRUE, balance |-> BalanceEntry(answer)]

\* part_004 lines 75-92
BalanceEntryV2(answer) ==
    IF answer.hasResult
    THEN ParseInt16ToString(Uint256Word(answer.high, answer.shift, answer.low))
    ELSE Str0

\* part_004 lines 35-100
getCurrentBalancesV2(answer) ==
    IF ~answer.ok THEN [ok |-> FALSE, balance |-> Str0]
    ELSE [ok |-> TRUE, balance |-> BalanceEntryV2(answer)]

InitRpc ==
    /\ allBalances = [atoken |-> <<>>, vtoken |-> <<>>]
    /\ pc = "request"
    /\ call = NoCall
    /\ result = [ok |-> FALSE, balance |-> Str0]

GetCurrentBalances ==
    /\ pc = "request"
    /\ \E answer \in RpcAnswers :
          /\ result' = getCurrentBalances(answer)
          /\ call' = [version |-> "V3", answer |-> answer]
    /\ pc' = "read"
    /\ UNCHANGED allBalances

GetCurrentBalancesV2 ==
    /\ pc = "request"
    /\ \E answer \in RpcAnswers :
          /\ result' = getCurrentBalancesV2(answer)
          /\ call' = [version |-> "V2", answer |-> answer]
    /\ pc' = "read"
    /\ UNCHANGED allBalances

NextRpc == GetCurrentBalances \/ GetCurrentBalancesV2

SpecRpc == InitRpc /\ [][NextRpc]_vars

\* the unsigned integer a result word encodes
WordValue(answer) ==
    NatAdd(NatMul(NatOf(answer.high), NatPow(<<16>>, answer.shift)),
           IF answer.shift = 0 THEN <<>> ELSE NatOf(answer.low))

BalanceRead == pc = "read" /\ call.answer.ok /\ call.answer.hasResult

\* C15: in the V3 path and in the V2 path alike, the balance read for a
\* result word is the exact decimal string of the unsigned integer the word
\* encodes, and BigInt() of that string does not throw.
C15_BalanceIsExactDecimal ==
    BalanceRead =>
        /\ result.ok
        /\ result.balance = NatToString(WordValue(call.answer))
        /\ ~BigIntThrows(result.balance)

\* what holds of the two paths: V3 is exact; V2 is exact up to 2^53
C15_V3Exact ==
    (BalanceRead /\ call.version = "V3") =>
        /\ result.ok
        /\ result.balance = NatToString(WordValue(call.answer))
        /\ ~BigIntThrows(result.balance)

C15_V2ExactBelowTwoPow53 ==
    (BalanceRead /\ call.version = "V2" /\ BitLength(WordValue(call.answer)) <= 53) =>
        /\ result.ok
        /\ result.balance = NatToString(WordValue(call.answer))

(***************************************************************************)
(* The engine at its boundary: the argument may be null, a field of a      *)
(* snapshot may be missing or malformed, and the caller may call again on  *)
(* the array it handed over.                                               *)
(***************************************************************************)
\* what a field may hold in place of decimal digits: the empty string,
\* nothing at all, a string that is no integer literal, a hexadecimal literal
BadFields == {<<>>, Undefined, <<"1", "e", "3">>, <<"0", "x", "1", "0">>}

FieldNames == {"balance", "scaled", "index"}

\* two snapshots of 2024-03-01, one of 2024-03-02, and one of another reserve
BaseSnapshots ==
    {Snapshot(1709287200, IntToString(1000, 1),
              IntToString(100, 1) \o Repeat("0", 25), "USDC"),
     Snapshot(1709316000, IntToString(1500, 1),
              IntToString(100, 1) \o Repeat("0", 25), "USDC"),
     Snapshot(1709380800, IntToString(1000, 1),
              IntToString(105, 1) \o Repeat("0", 25), "USDC"),
     Snapshot(1709316000, IntToString(1500, 1),
              IntToString(105, 1) \o Repeat("0", 25), "WXDAI")}

FieldSnapshots ==
    BaseSnapshots
    \cup {[s EXCEPT ![f] = v] : s \in BaseSnapshots, f \in FieldNames, v \in BadFields}

FieldLists == UNION {[1..n -> FieldSnapshots] : n \in 0..(MaxLen - 1)}

\* BigInt() of a field of a snapshot the loop reaches throws (lines 151-153);
\* nothing is caught inside the engine, so the call throws
SupplyParseThrows(periodBalances) ==
    \E i \in 1..Len(periodBalances) :
        \/ BigIntThrows(periodBalances[i].currentATokenBalance)
        \/ BigIntThrows(periodBalances[i].scaledATokenBalance)
        \/ BigIntThrows(periodBalances[i].index)

\* lines 260-262
DebtParseThrows(periodBalances) ==
    \E i \in 1..Len(periodBalances) :
        \/ BigIntThrows(periodBalances[i].currentVariableDebt)
        \/ BigIntThrows(periodBalances[i].scaledVariableDebt)
        \/ BigIntThrows(periodBalances[i].index)

Threw(type) == [threw |-> TRUE, value |-> createEmptyResult(type)]

Returned(value) == [threw |-> FALSE, value |-> value]

\* the outcome of one call: the value returned, or an exception
SupplyOutcome(atokenBalances, token) ==
    IF atokenBalances # Null
       /\ SupplyParseThrows(PeriodBalances(FilterToken(atokenBalances, token)))
    THEN Threw("supply")
    ELSE Returned(calculateSupplyInterestFromBalances(atokenBalances, token))

DebtOutcome(vtokenBalances, token) ==
    IF vtokenBalances # Null
       /\ DebtParseThrows(PeriodBalances(FilterToken(vtokenBalances, token)))
    THEN Threw("debt")
    ELSE Returned(calculateDebtInterestFromBalances(vtokenBalances, token))

\* the array of the caller after the call, had sort() been applied to it
ArgumentSortedInPlace(balances, token) ==
    IF balances = Null THEN balances ELSE SortByTimestamp(balances)

\* the array of the caller after the call: filter() builds a new array
\* (line 117) and sort() orders that one (line 129); the argument is only read
ArgumentAfterCall(balances, token) == balances

ATokenItems(given) ==
    IF given = Null THEN Null ELSE [j \in 1..Len(given) |-> ATokenItem(given[j])]

VTokenItems(given) ==
    IF given = Null THEN Null ELSE [j \in 1..Len(given) |-> VTokenItem(given[j])]

InitGiven ==
    /\ \E given \in {Null} \cup FieldLists :
          allBalances = [atoken |-> ATokenItems(given),
                         vtoken |-> VTokenItems(given)]
    /\ pc = "given"
    /\ call = NoCall
    /\ result = Returned(createEmptyResult("supply"))

CallSupplyEngine(token) ==
    /\ pc = "given"
    /\ result' = SupplyOutcome(allBalances.atoken, token)
    /\ allBalances' = [allBalances EXCEPT !.atoken = ArgumentAfterCall(@, token)]
    /\ call' = [side |-> "supply", token |-> token, given |-> allBalances.atoken,
                first |-> result]
    /\ pc' = "once"

CallDebtEngine(token) ==
    /\ pc = "given"
    /\ result' = DebtOutcome(allBalances.vtoken, token)
    /\ allBalances' = [allBalances EXCEPT !.vtoken = ArgumentAfterCall(@, token)]
    /\ call' = [side |-> "debt", token |-> token, given |-> allBalances.vtoken,
                first |-> result]
    /\ pc' = "once"

\* the same call once more, on the array as the first call left it
CallSupplyEngineAgain ==
    /\ pc = "once" /\ call.side = "supply"
    /\ result' = SupplyOutcome(allBalances.atoken, call.token)
    /\ allBalances' = [allBalances EXCEPT !.atoken = ArgumentAfterCall(@, call.token)]
    /\ call' = [call EXCEPT !.first = result]
    /\ pc' = "twice"

CallDebtEngineAgain ==
    /\ pc = "once" /\ call.side = "debt"
    /\ result' = DebtOutcome(allBalances.vtoken, call.token)
    /\ allBalances' = [allBalances EXCEPT !.vtoken = ArgumentAfterCall(@, call.token)]
    /\ call' = [call EXCEPT !.first = result]
    /\ pc' = "twice"

NextGiven ==
    \/ \E token \in Tokens : CallSupplyEngine(token)
    \/ \E token \in Tokens : CallDebtEngine(token)
    \/ CallSupplyEngineAgain
    \/ CallDebtEngineAgain

SpecGiven == InitGiven /\ [][NextGiven]_vars

CalledOnce == pc = "once"

\* a field that is missing, empty, or not made of decimal digits only
Malformed(v) == v = Undefined \/ v = <<>> \/ ~IsDecimalString(v)

MalformedItem(b) ==
    Malformed(BalanceOf(b)) \/ Malformed(ScaledOf(b)) \/ Malformed(b.index)

WellFormedItem(b) == ~MalformedItem(b)

\* C16: when a snapshot of the requested token has an index, a scaled balance
\* or a raw balance that is missing or is not a decimal integer string (the
\* empty string included), the call throws, or it returns what it returns
\* for the series without the malformed snapshots; the field never counts
\* as 0.
C16_MalformedFieldRejected ==
    (/\ CalledOnce
     /\ call.given # Null
     /\ \E j \in 1..Len(call.given) :
           call.given[j].symbol = call.token /\ MalformedItem(call.given[j]))
    => \/ result.threw
       \/ result = Returned(Engine(SelectSeq(call.given, WellFormedItem)))

\* what holds: a field that is missing or is no integer literal, in the only
\* snapshot of the requested token, makes the call throw
OnlyItemUnparsable ==
    /\ CalledOnce
    /\ call.given # Null
    /\ Len(call.given) = 1
    /\ call.given[1].symbol = call.token
    /\ \/ BigIntThrows(BalanceOf(call.given[1]))
       \/ BigIntThrows(ScaledOf(call.given[1]))
       \/ BigIntThrows(call.given[1].index)

UnparsableFieldThrows == OnlyItemUnparsable => result.threw

\* the argument is null, or empty, or holds no snapshot of the requested token
NoSnapshotOfToken ==
    \/ call.given = Null
    \/ \A j \in 1..Len(call.given) : call.given[j].symbol # call.token

\* C17 (Scenario D): with no snapshot of the requested token (null, an empty
\* array, or only snapshots of other tokens) the call returns without
\* throwing: no daily detail, totalInterest "0", and "0" for the total
\* increases, the total decreases, the current balance and the total
\* interest of the summary.
C17_ScenarioD ==
    (CalledOnce /\ NoSnapshotOfToken) =>
        /\ ~result.threw
        /\ result.value.dailyDetails = <<>>
        /\ result.value.totalInterest = Str0
        /\ result.value.summary.totalInterest = Str0
        /\ IF call.side = "debt"
           THEN /\ result.value.summary.totalBorrows = Str0
                /\ result.value.summary.totalRepays = Str0
                /\ result.value.summary.currentDebt = Str0
           ELSE /\ result.value.summary.totalSupplies = Str0
                /\ result.value.summary.totalWithdraws = Str0
                /\ result.value.summary.currentSupply = Str0

\* a call on two snapshots of another reserve, one of them malformed
C17_Witness ==
    /\ CalledOnce
    /\ call.given # Null
    /\ Len(call.given) = 2
    /\ NoSnapshotOfToken
    /\ \E j \in 1..2 : MalformedItem(call.given[j])

\* a call on null, and a call on the empty array
C17_NullGiven == CalledOnce /\ call.given = Null

C17_EmptyGiven == CalledOnce /\ call.given = <<>>

CalledTwice == pc = "twice"

NumZero == [neg |-> FALSE, mag |-> <<>>, exp |-> 0]

\* the greatest t in lo..hi with 2^t dividing mag (by bisection; 2^lo divides)
RECURSIVE TrailingZeroBitsIn(_, _, _)
TrailingZeroBitsIn(mag, lo, hi) ==
    IF lo = hi THEN lo
    ELSE IF NatMod(mag, NatPow(<<2>>, (lo + hi + 1) \div 2)) = <<>>
         THEN TrailingZeroBitsIn(mag, (lo + hi + 1) \div 2, hi)
         ELSE TrailingZeroBitsIn(mag, lo, (lo + hi + 1) \div 2 - 1)

NumReduced(neg, mag, exp, t) ==
    [neg |-> neg, mag |-> NatDiv(mag, NatPow(<<2>>, t)), exp |-> exp - t]

\* mag / 2^exp in lowest terms, for mag > 0 of at most 54 bits and exp > 0
NumReduce(neg, mag, exp) ==
    IF mag[1] % 2 = 1 THEN [neg |-> neg, mag |-> mag, exp |-> exp]
    ELSE NumReduced(neg, mag, exp, TrailingZeroBitsIn(mag, 1, IF exp < 53 THEN exp ELSE 53))

\* q * 2^shift / 2^exp
NumShifted(neg, q, exp, shift) ==
    IF shift >= exp
    THEN [neg |-> neg, mag |-> NatMul(q, NatPow(<<2>>, shift - exp)), exp |-> 0]
    ELSE NumReduce(neg, q, exp - shift)

NumRoundBits(neg, mag, exp, bits) ==
    IF bits <= 53 THEN NumReduce(neg, mag, exp)
    ELSE NumShifted(neg,
                    RoundedQuotient(NatDivModFrom(mag, NatPow(<<2>>, bits - 53), 1),
                                    NatPow(<<2>>, bits - 54)),
                    exp, bits - 53)

\* the double nearest to (-1)^neg * mag / 2^exp
NumRound(neg, mag, exp) ==
    IF mag = <<>> THEN NumZero
    ELSE IF exp = 0 THEN [neg |-> neg, mag |-> RoundToDouble(mag), exp |-> 0]
    ELSE IF Len(mag) <= 3 THEN NumReduce(neg, mag, exp)
    ELSE NumRoundBits(neg, mag, exp, BitLength(mag))

NumOfInt(i) ==
    IF i < 0 THEN [neg |-> TRUE, mag |-> NatOf(0 - i), exp |-> 0]
    ELSE [neg |-> FALSE, mag |-> NatOf(i), exp |-> 0]

NumNeg(x) == IF x.mag = <<>> THEN x ELSE [x EXCEPT !.neg = ~x.neg]

\* x.mag over the denominator 2^exp, for exp >= x.exp
NumScaled(x, exp) ==
    MkBig(x.neg, IF exp = x.exp THEN x.mag ELSE NatMul(x.mag, NatPow(<<2>>, exp - x.exp)))

NumOfBig(b, exp) == NumRound(b.neg, b.mag, exp)

\* the sum over the common denominator 2^exp
NumAddOver(x, y, exp) == NumOfBig(BigAdd(NumScaled(x, exp), NumScaled(y, exp)), exp)

NumAdd(x, y) ==
    IF x.mag = <<>> THEN y
    ELSE IF y.mag = <<>> THEN x
    ELSE NumAddOver(x, y, Max(x.exp, y.exp))

NumSub(x, y) == NumAdd(x, NumNeg(y))

NumMul(x, y) ==
    IF x.mag = <<>> \/ y.mag = <<>> THEN NumZero
    ELSE NumRound(x.neg # y.neg, NatMul(x.mag, y.mag), x.exp + y.exp)

\* twice the quotient, plus one when the division left a remainder: the
\* remainder keeps a quotient that is not exact off the halfway points
StickyQuotient(qr) ==
    NatAdd(NatMulLimb(Trim(qr[1]), 2), IF qr[2] = <<>> THEN <<>> ELSE <<1>>)

\* a / b for integers a >= 0 and b > 0: the quotient is taken to more than
\* 54 bits before it is rounded
NumDivIntBy(a, b, k) ==
    NumRound(FALSE,
             StickyQuotient(NatDivModFrom(NatMul(NatOf(a), NatPow(<<2>>, k)), NatOf(b), 1)),
             k + 1)

NumDivInt(a, b) ==
    IF a = 0 THEN NumZero ELSE NumDivIntBy(a, b, 55 + BitLength(NatOf(b)))

\* x <= y
NumLEOver(x, y, exp) == BigCmp(NumScaled(x, exp), NumScaled(y, exp)) <= 0

NumLE(x, y) == NumLEOver(x, y, Max(x.exp, y.exp))

\* Math.max(0, x)
NumMax0(x) == IF x.neg THEN NumZero ELSE x

\* parseFloat of a string of decimal digits with an optional sign
parseFloat(s) == NumOfBig(BigInt(s), 0)

(***************************************************************************)
(* The period queries (part_007).  A value that may be null is a sequence  *)
(* of no element or of one.  Dates are read in the zone of the process,    *)
(* taken to be UTC.                                                        *)
(***************************************************************************)
\* day number, counted from 1970-01-01, of a civil date
DaysFromCivil(year, month, day) ==
    LET y   == IF month <= 2 THEN year - 1 ELSE year
        era == y \div 400
        yoe == y - era * 400
        doy == (153 * (IF month > 2 THEN month - 3 ELSE month + 9) + 2) \div 5 + day - 1
        doe == yoe * 365 + yoe \div 4 - yoe \div 100 + doy
    IN  era * 146097 + doe - 719468

\* date.replace(/-/g, '')
WithoutDashes(date) == SelectSeq(date, LAMBDA c : c # "-")

\* lines 33-42: YYYYMMDD or YYYY-MM-DD to the first second of that day
dateToTimestamp(date) ==
    86400 * DaysFromCivil(DigitsValue(SubSeq(WithoutDashes(date), 1, 4)),
                          DigitsValue(SubSeq(WithoutDashes(date), 5, 6)),
                          DigitsValue(SubSeq(WithoutDashes(date), 7, 8)))

\* lines 47-53
CivilToString(civil) ==
    IntToString(civil[1], 1) \o PadStart2(civil[2]) \o PadStart2(civil[3])

timestampToDate(timestamp) == CivilToString(CivilFromDays(timestamp \div 86400))

\* point[key] || '0'
FieldOrZero(point, key) ==
    IF key \in DOMAIN point /\ point[key] # <<>> THEN point[key] ELSE Str0

\* lines 72-87: the loop over the sorted points, from the i-th on
RECURSIVE SurroundingFrom(_, _, _, _)
SurroundingFrom(sorted, i, targetTimestamp, before) ==
    IF i > Len(sorted)
    THEN [before |-> before, after |-> <<>>, exact |-> <<>>]
    ELSE IF timestampToDate(sorted[i].timestamp) = timestampToDate(targetTimestamp)
    THEN [before |-> before, after |-> <<>>, exact |-> <<sorted[i]>>]
    ELSE IF sorted[i].timestamp < targetTimestamp
    THEN SurroundingFrom(sorted, i + 1, targetTimestamp, <<sorted[i]>>)
    ELSE IF sorted[i].timestamp > targetTimestamp
    THEN [before |-> before, after |-> <<sorted[i]>>, exact |-> <<>>]
    ELSE SurroundingFrom(sorted, i + 1, targetTimestamp, before)

\* lines 58-90
findSurroundingPoints(dailyDetails, targetTimestamp, balanceKey) ==
    IF Len(dailyDetails) = 0
    THEN [before |-> <<>>, after |-> <<>>, exact |-> <<>>]
    ELSE SurroundingFrom(SortByTimestamp(dailyDetails), 1, targetTimestamp, <<>>)

\* before + (after - before) * ratio
Lerp(beforeValue, afterValue, ratio) ==
    NumAdd(beforeValue, NumMul(NumSub(afterValue, beforeValue), ratio))

\* lines 105-115
InterpolatedWith(before, after, targetTimestamp, balanceKey, ratio) ==
    [timestamp      |-> targetTimestamp,
     balance        |-> Lerp(parseFloat(FieldOrZero(before, balanceKey)),
                             parseFloat(FieldOrZero(after, balanceKey)), ratio),
     totalInterest  |-> Lerp(parseFloat(FieldOrZero(before, "totalInterest")),
                             parseFloat(FieldOrZero(after, "totalInterest")), ratio),
     isInterpolated |-> TRUE]

\* lines 95-116
interpolatePoint(before, after, targetTimestamp, balanceKey) ==
    InterpolatedWith(before, after, targetTimestamp, balanceKey,
                     IF after.timestamp - before.timestamp > 0
                     THEN NumDivInt(targetTimestamp - before.timestamp,
                                    after.timestamp - before.timestamp)
                     ELSE NumZero)

\* lines 131-169: the four cases, on what findSurroundingPoints found
PointFromSurrounding(found, targetTimestamp, balanceKey) ==
    IF found.exact # <<>>
    THEN <<[timestamp      |-> found.exact[1].timestamp,
            balance        |-> parseFloat(FieldOrZero(found.exact[1], balanceKey)),
            totalInterest  |-> parseFloat(FieldOrZero(found.exact[1], "totalInterest")),
            isInterpolated |-> FALSE]>>
    ELSE IF found.before = <<>> /\ found.after # <<>>
    THEN <<[timestamp |-> targetTimestamp, balance |-> NumZero,
            totalInterest |-> NumZero, isInterpolated |-> TRUE]>>
    ELSE IF found.before # <<>> /\ found.after = <<>>
    THEN <<[timestamp      |-> targetTimestamp,
            balance        |-> parseFloat(FieldOrZero(found.before[1], balanceKey)),
            totalInterest  |-> parseFloat(FieldOrZero(found.before[1], "totalInterest")),
            isInterpolated |-> TRUE]>>
    ELSE IF found.before # <<>> /\ found.after # <<>>
    THEN <<interpolatePoint(found.before[1], found.after[1], targetTimestamp, balanceKey)>>
    ELSE <<>>

\* lines 121-170
getPointAtDate(dailyDetails, targetDate, balanceKey) ==
    IF Len(dailyDetails) = 0 THEN <<>>
    ELSE PointFromSurrounding(
             findSurroundingPoints(dailyDetails, dateToTimestamp(targetDate), balanceKey),
             dateToTimestamp(targetDate), balanceKey)

\* a period interest that is not floored at 0
PeriodInterestNotFloored(startPoint, endPoint) ==
    [interest   |-> IF startPoint = <<>> \/ endPoint = <<>> THEN NumZero
                    ELSE NumSub(endPoint[1].totalInterest, startPoint[1].totalInterest),
     startPoint |-> startPoint,
     endPoint   |-> endPoint]

\* lines 191-202: the interest between two boundary points
PeriodInterest(startPoint, endPoint) ==
    [interest   |-> IF startPoint = <<>> \/ endPoint = <<>> THEN NumZero
                    ELSE NumMax0(NumSub(endPoint[1].totalInterest,
                                        startPoint[1].totalInterest)),
     startPoint |-> startPoint,
     endPoint   |-> endPoint]

\* lines 178-203
calculatePeriodInterest(dailyDetails, startDate, endDate, balanceKey) ==
    IF Len(dailyDetails) = 0
    THEN [interest |-> NumZero, startPoint |-> <<>>, endPoint |-> <<>>]
    ELSE PeriodInterest(getPointAtDate(dailyDetails, startDate, balanceKey),
                        getPointAtDate(dailyDetails, endDate, balanceKey))

\* 2024-03-01 10:00, 2024-03-02 12:00 (twice, once with a balance of
\* 2^53 + 1) and 2024-03-04 12:00 UTC: 2024-03-03 has no snapshot
QuerySnapshots ==
    {Snapshot(1709287200, IntToString(1000, 1),
              IntToString(100, 1) \o Repeat("0", 25), "USDC"),
     Snapshot(1709380800, IntToString(1000, 1),
              IntToString(105, 1) \o Repeat("0", 25), "USDC"),
     Snapshot(1709380800, IntToString(900719925, 1) \o IntToString(4740993, 1),
              IntToString(100, 1) \o Repeat("0", 25), "USDC"),
     Snapshot(1709553600, IntToString(1500, 1),
              IntToString(105, 1) \o Repeat("0", 25), "USDC")}

QueryLists == UNION {[1..n -> QuerySnapshots] : n \in 0..(MaxLen - 1)}

\* the clock when the series was extended: 2024-03-04 16:00 and 2024-03-06 12:00 UTC
QueryNowTimes == {1709568000, 1709726400}

\* the series was left as the engine returned it, or extended by today's
\* point, whose balance is 1600 or 2^53 + 1
QueryExtensions ==
    {[extended |-> FALSE, today |-> 0, balance |-> Str0]}
    \cup {[extended |-> TRUE, today |-> t, balance |-> IntToString(1600, 1)] :
            t \in QueryNowTimes}
    \cup {[extended |-> TRUE, today |-> 1709726400,
           balance |-> IntToString(900719925, 1) \o IntToString(4740993, 1)]}

DashedDate(year, month, day) ==
    IntToString(year, 1) \o <<"-">> \o PadStart2(month) \o <<"-">> \o PadStart2(day)

\* from the day before the first snapshot to the day of the last one
QueryDates ==
    {IntToString(20240229, 1), DashedDate(2024, 3, 1), IntToString(20240302, 1),
     DashedDate(2024, 3, 3), IntToString(20240304, 1)}

BalanceKeys == {"supply", "debt"}

\* the series a request holds: the result of the engine on the history of
\* USDC, extended as in lines 376-391 of the calculator
SeriesOf(engineResult, side, extension) ==
    IF extension.extended /\ Len(engineResult.dailyDetails) > 0
    THEN [engineResult EXCEPT !.dailyDetails =
             addTodayPoint(engineResult.dailyDetails, extension.balance, side,
                           "USDC", extension.today)]
    ELSE engineResult

InitQuery ==
    /\ \E list \in QueryLists, side \in BalanceKeys, extension \in QueryExtensions :
          /\ allBalances = [atoken |-> [j \in 1..Len(list) |-> ATokenItem(list[j])],
                            vtoken |-> [j \in 1..Len(list) |-> VTokenItem(list[j])]]
          /\ call = [side |-> side, token |-> "USDC"]
          /\ result =
                SeriesOf(IF side = "debt"
                         THEN calculateDebtInterestFromBalances(
                                  [j \in 1..Len(list) |-> VTokenItem(list[j])], "USDC")
                         ELSE calculateSupplyInterestFromBalances(
                                  [j \in 1..Len(list) |-> ATokenItem(list[j])], "USDC"),
                         side, extension)
    /\ pc = "series"

GetPointAtDate(targetDate, balanceKey) ==
    /\ pc = "series"
    /\ call' = [side |-> call.side, token |-> call.token,
                fn |-> "getPointAtDate",
                startDate |-> targetDate, endDate |-> targetDate,
                balanceKey |-> balanceKey,
                returned |-> getPointAtDate(result.dailyDetails, targetDate, balanceKey)]
    /\ pc' = "queried"
    /\ UNCHANGED <<allBalances, result>>

CalculatePeriodInterest(startDate, endDate, balanceKey) ==
    /\ pc = "series"
    /\ call' = [side |-> call.side, token |-> call.token,
                fn |-> "calculatePeriodInterest",
                startDate |-> startDate, endDate |-> endDate,
                balanceKey |-> balanceKey,
                returned |-> calculatePeriodInterest(result.dailyDetails, startDate,
                                                     endDate, balanceKey)]
    /\ pc' = "queried"
    /\ UNCHANGED <<allBalances, result>>

NextQuery ==
    \/ \E targetDate \in QueryDates, balanceKey \in BalanceKeys :
          GetPointAtDate(targetDate, balanceKey)
    \/ \E startDate \in QueryDates, endDate \in QueryDates :
          CalculatePeriodInterest(startDate, endDate, call.side)

SpecQuery == InitQuery /\ [][NextQuery]_vars

Queried == pc = "queried"

Series == result.dailyDetails

PeriodQueried == Queried /\ call.fn = "calculatePeriodInterest"

\* C19: calculatePeriodInterest returns the two points getPointAtDate yields
\* for the start date and for the end date, and as interest the total
\* interest of the end point less that of the start point, or 0 when that
\* difference is not positive; for an empty series it returns interest 0
\* and two null points.
C19_PeriodInterestIsFlooredDifference ==
    PeriodQueried =>
        IF Len(Series) = 0
        THEN /\ call.returned.interest = NumZero
             /\ call.returned.startPoint = <<>>
             /\ call.returned.endPoint = <<>>
        ELSE /\ call.returned.startPoint =
                    getPointAtDate(Series, call.startDate, call.balanceKey)
             /\ call.returned.endPoint =
                    getPointAtDate(Series, call.endDate, call.balanceKey)
             /\ call.returned.startPoint # <<>>
             /\ call.returned.endPoint # <<>>
             /\ call.returned.interest =
                    IF NumLE(call.returned.endPoint[1].totalInterest,
                             call.returned.startPoint[1].totalInterest)
                    THEN NumZero
                    ELSE NumSub(call.returned.endPoint[1].totalInterest,
                                call.returned.startPoint[1].totalInterest)

\* a period from an interpolated start to a later end, with interest accrued
C19_Witness ==
    /\ PeriodQueried
    /\ Len(Series) >= 2
    /\ call.returned.startPoint # <<>>
    /\ call.returned.startPoint[1].isInterpolated
    /\ call.returned.startPoint[1].totalInterest # NumZero
    /\ call.returned.interest # NumZero

\* the integer a decimal string denotes, as a Number that holds it exactly
ExactNum(s) == [neg |-> BigInt(s).neg, mag |-> BigInt(s).mag, exp |-> 0]

\* the points of the series on the date asked for
PointsOn(date) == {i \in 1..Len(Series) : Series[i].date = WithoutDashes(date)}

ExactDateQueried ==
    /\ Queried
    /\ call.balanceKey = call.side
    /\ call.startDate = call.endDate
    /\ PointsOn(call.startDate) # {}

\* C20: for a date on which the series has a point, getPointAtDate returns
\* the balance and the totalInterest of that point, not interpolated, and
\* calculatePeriodInterest from that date to itself returns interest 0, with
\* the balance of that point at both ends.
C20_ExactDateBoundary ==
    ExactDateQueried =>
        IF call.fn = "getPointAtDate"
        THEN /\ call.returned # <<>>
             /\ ~call.returned[1].isInterpolated
             /\ \E i \in PointsOn(call.startDate) :
                   /\ call.returned[1].balance =
                          ExactNum(FieldOrZero(Series[i], call.balanceKey))
                   /\ call.returned[1].totalInterest =
                          ExactNum(Series[i].totalInterest)
        ELSE /\ call.returned.interest = NumZero
             /\ call.returned.startPoint # <<>>
             /\ call.returned.endPoint # <<>>
             /\ \E i \in PointsOn(call.startDate) :
                   /\ call.returned.startPoint[1].balance =
                          ExactNum(FieldOrZero(Series[i], call.balanceKey))
                   /\ call.returned.endPoint[1].balance =
                          ExactNum(FieldOrZero(Series[i], call.balanceKey))

\* what holds: the values returned are those of the point read by parseFloat,
\* the nearest doubles
ExactDateYieldsParsedPoint ==
    ExactDateQueried =>
        IF call.fn = "getPointAtDate"
        THEN /\ call.returned # <<>>
             /\ ~call.returned[1].isInterpolated
             /\ \E i \in PointsOn(call.startDate) :
                   /\ call.returned[1].balance =
                          parseFloat(FieldOrZero(Series[i], call.balanceKey))
                   /\ call.returned[1].totalInterest =
                          parseFloat(Series[i].totalInterest)
        ELSE /\ call.returned.interest = NumZero
             /\ \E i \in PointsOn(call.startDate) :
                   /\ call.returned.startPoint[1].balance =
                          parseFloat(FieldOrZero(Series[i], call.balanceKey))
                   /\ call.returned.endPoint[1].balance =
                          parseFloat(FieldOrZero(Series[i], call.balanceKey))

\* and exactly those of the point while its balance is below 2^53
ExactDateExactBelowTwoPow53 ==
    (ExactDateQueried /\ call.fn = "getPointAtDate"
     /\ \A i \in PointsOn(call.startDate) :
           BitLength(BigInt(FieldOrZero(Series[i], call.balanceKey)).mag) <= 53
           /\ BitLength(BigInt(Series[i].totalInterest).mag) <= 53)
    => /\ call.returned # <<>>
       /\ \E i \in PointsOn(call.startDate) :
             /\ call.returned[1].balance =
                    ExactNum(FieldOrZero(Series[i], call.balanceKey))
             /\ call.returned[1].totalInterest = ExactNum(Series[i].totalInterest)

PointQueried == Queried /\ call.fn = "getPointAtDate"

\* the day, counted from 1970-01-01, of a timestamp and of the date asked for
DayOfTimestamp(timestamp) == timestamp \div 86400

TargetDay == DayOfTimestamp(dateToTimestamp(call.startDate))

\* the places i at which the date asked for falls strictly between the day
\* of the i-th point and the day of the next one
GapsAroundTarget ==
    {i \in 1..(Len(Series) - 1) :
        /\ DayOfTimestamp(Series[i].timestamp) < TargetDay
        /\ TargetDay < DayOfTimestamp(Series[i + 1].timestamp)}

\* x lies between a and b, in either order
NumBetween(x, a, b) ==
    \/ NumLE(a, x) /\ NumLE(x, b)
    \/ NumLE(b, x) /\ NumLE(x, a)

\* the time from the point before to the start of the day asked for, over
\* the time from the point before to the point after
RatioAt(i) ==
    NumDivInt(dateToTimestamp(call.startDate) - Series[i].timestamp,
              Series[i + 1].timestamp - Series[i].timestamp)

\* before + (after - before) * ratio, on two values as they are read
InterpolatedAt(i, beforeValue, afterValue) ==
    NumAdd(beforeValue, NumMul(NumSub(afterValue, beforeValue), RatioAt(i)))

\* C21: for a date strictly between the days of two consecutive points,
\* getPointAtDate returns the balance and the totalInterest interpolated
\* linearly between the point before and the point after, with the ratio of
\* the elapsed time, and each value returned lies between the values of the
\* two points.
C21_InterpolationBetweenNeighbours ==
    PointQueried =>
        \A i \in GapsAroundTarget :
            /\ call.returned # <<>>
            /\ call.returned[1].isInterpolated
            /\ call.returned[1].balance =
                   InterpolatedAt(i, parseFloat(FieldOrZero(Series[i], call.balanceKey)),
                                  parseFloat(FieldOrZero(Series[i + 1], call.balanceKey)))
            /\ call.returned[1].totalInterest =
                   InterpolatedAt(i, parseFloat(Series[i].totalInterest),
                                  parseFloat(Series[i + 1].totalInterest))
            /\ NumBetween(call.returned[1].balance,
                          ExactNum(FieldOrZero(Series[i], call.balanceKey)),
                          ExactNum(FieldOrZero(Series[i + 1], call.balanceKey)))
            /\ NumBetween(call.returned[1].totalInterest,
                          ExactNum(Series[i].totalInterest),
                          ExactNum(Series[i + 1].totalInterest))

\* what holds: the interpolation is that of the two values as parseFloat
\* reads them, and lies between those
InterpolationOfParsedNeighbours ==
    PointQueried =>
        \A i \in GapsAroundTarget :
            /\ call.returned # <<>>
            /\ call.returned[1].isInterpolated
            /\ call.returned[1].timestamp = dateToTimestamp(call.startDate)
            /\ call.returned[1].balance =
                   InterpolatedAt(i, parseFloat(FieldOrZero(Series[i], call.balanceKey)),
                                  parseFloat(FieldOrZero(Series[i + 1], call.balanceKey)))
            /\ call.returned[1].totalInterest =
                   InterpolatedAt(i, parseFloat(Series[i].totalInterest),
                                  parseFloat(Series[i + 1].totalInterest))
            /\ NumBetween(call.returned[1].balance,
                          parseFloat(FieldOrZero(Series[i], call.balanceKey)),
                          parseFloat(FieldOrZero(Series[i + 1], call.balanceKey)))
            /\ NumBetween(call.returned[1].totalInterest,
                          parseFloat(Series[i].totalInterest),
                          parseFloat(Series[i + 1].totalInterest))

\* a date in a gap, with a value strictly inside the two it lies between
InterpolatedStrictlyInside ==
    /\ PointQueried
    /\ \E i \in GapsAroundTarget :
          /\ call.returned[1].balance # parseFloat(FieldOrZero(Series[i], call.balanceKey))
          /\ call.returned[1].balance # parseFloat(FieldOrZero(Series[i + 1], call.balanceKey))

\* the date asked for is before the day of every point, or after it
TargetBeforeFirst ==
    \A i \in 1..Len(Series) : TargetDay < DayOfTimestamp(Series[i].timestamp)

TargetAfterLast ==
    \A i \in 1..Len(Series) : DayOfTimestamp(Series[i].timestamp) < TargetDay

\* the places of the points that no other point follows in time
LastPoints ==
    {i \in 1..Len(Series) :
        \A j \in 1..Len(Series) : Series[j].timestamp <= Series[i].timestamp}

\* C22: on a series that is not empty getPointAtDate never returns null; a
\* date before the day of the first point yields balance 0 and totalInterest
\* 0, and a date after the day of the last point yields the balance and the
\* totalInterest of the last point.
C22_ClampOutsideSeries ==
    (PointQueried /\ Len(Series) > 0) =>
        /\ call.returned # <<>>
        /\ TargetBeforeFirst =>
              /\ call.returned[1].balance = NumZero
              /\ call.returned[1].totalInterest = NumZero
        /\ TargetAfterLast =>
              \E i \in LastPoints :
                 /\ call.returned[1].balance =
                        ExactNum(FieldOrZero(Series[i], call.balanceKey))
                 /\ call.returned[1].totalInterest = ExactNum(Series[i].totalInterest)

\* what holds: never null, 0 before the first point, and after the last
\* point its values as parseFloat reads them
ClampToParsedLastPoint ==
    (PointQueried /\ Len(Series) > 0) =>
        /\ call.returned # <<>>
        /\ TargetBeforeFirst =>
              /\ call.returned[1].balance = NumZero
              /\ call.returned[1].totalInterest = NumZero
              /\ call.returned[1].isInterpolated
        /\ TargetAfterLast =>
              \E i \in LastPoints :
                 /\ call.returned[1].balance =
                        parseFloat(FieldOrZero(Series[i], call.balanceKey))
                 /\ call.returned[1].totalInterest = parseFloat(Series[i].totalInterest)
                 /\ call.returned[1].isInterpolated

\* both ends happen: a date before the first point and one after the last
AskedBeforeFirst == PointQueried /\ Len(Series) > 0 /\ TargetBeforeFirst

AskedAfterLast ==
    /\ PointQueried /\ Len(Series) > 1 /\ TargetAfterLast
    /\ call.returned[1].balance # NumZero

(***************************************************************************)
(* Range queries repeated on one cached series (part_007, lines 178-221).  *)
(***************************************************************************)
\* lines 215-220
StartBalanceOf(point) ==
    IF point = <<>> THEN <<>>
    ELSE <<[balance |-> point[1].balance, isInterpolated |-> point[1].isInterpolated]>>

\* lines 209-221
calculateStartBalance(dailyDetails, startDate, balanceKey) ==
    StartBalanceOf(getPointAtDate(dailyDetails, startDate, balanceKey))

\* a series that the query sorts in place
SeriesSortedInPlace(dailyDetails) == SortByTimestamp(dailyDetails)

\* line 68: the points are sorted in a copy, [...dailyDetails], and nothing
\* else writes to the series or to a point of it
SeriesAfterCall(dailyDetails) == dailyDetails

\* a point of a supply series
RangePoint(timestamp, supply, periodInterest, totalInterest) ==
    [date           |-> formatDateYYYYMMDD(timestamp),
     timestamp      |-> timestamp,
     supply         |-> IntToString(supply, 1),
     periodInterest |-> IntToString(periodInterest, 1),
     totalInterest  |-> IntToString(totalInterest, 1)]

\* 2024-03-01 10:00, 2024-03-02 12:00 and 2024-03-04 12:00 UTC
RangePoints ==
    {RangePoint(1709287200, 1000, 0, 0),
     RangePoint(1709380800, 1050, 50, 50),
     RangePoint(1709553600, 1500, 21, 71)}

\* the cached series, in any order
RangeSeries == UNION {[1..n -> RangePoints] : n \in 0..(MaxLen - 1)}

RangeDates ==
    {IntToString(20240229, 1), IntToString(20240302, 1),
     DashedDate(2024, 3, 3), IntToString(20240305, 1)}

InitRange ==
    /\ \E series \in RangeSeries :
          /\ allBalances = [series |-> series]
          /\ result = [dailyDetails |-> series]
    /\ call = [fn |-> "none"]
    /\ pc = "fresh"

RangeNotDone == pc \in {"fresh", "once"}

RangeAdvance ==
    /\ pc' = IF pc = "fresh" THEN "once" ELSE "twice"
    /\ result' = [dailyDetails |-> SeriesAfterCall(result.dailyDetails)]
    /\ UNCHANGED allBalances

\* each query records what it returned on the cached series and what the
\* same query returns on a fresh copy of the series
RangeGetPointAtDate(targetDate) ==
    /\ RangeNotDone
    /\ call' = [fn |-> "getPointAtDate", startDate |-> targetDate, endDate |-> targetDate,
                returned |-> getPointAtDate(result.dailyDetails, targetDate, "supply"),
                alone |-> getPointAtDate(allBalances.series, targetDate, "supply")]
    /\ RangeAdvance

RangeCalculatePeriodInterest(startDate, endDate) ==
    /\ RangeNotDone
    /\ call' = [fn |-> "calculatePeriodInterest", startDate |-> startDate,
                endDate |-> endDate,
                returned |-> calculatePeriodInterest(result.dailyDetails, startDate,
                                                     endDate, "supply"),
                alone |-> calculatePeriodInterest(allBalances.series, startDate,
                                                  endDate, "supply")]
    /\ RangeAdvance

RangeCalculateStartBalance(startDate) ==
    /\ RangeNotDone
    /\ call' = [fn |-> "calculateStartBalance", startDate |-> startDate,
                endDate |-> startDate,
                returned |-> calculateStartBalance(result.dailyDetails, startDate, "supply"),
                alone |-> calculateStartBalance(allBalances.series, startDate, "supply")]
    /\ RangeAdvance

NextRange ==
    \/ \E targetDate \in RangeDates : RangeGetPointAtDate(targetDate)
    \/ \E startDate \in RangeDates, endDate \in RangeDates :
          RangeCalculatePeriodInterest(startDate, endDate)
    \/ \E startDate \in RangeDates : RangeCalculateStartBalance(startDate)

SpecRange == InitRange /\ [][NextRange]_vars

MaxAddresses == 3

\* addresses that match /^0x[a-fA-F0-9]{40}$/, and two that do not
ValidAddresses ==
    {"0x1111111111111111111111111111111111111111",
     "0x2222222222222222222222222222222222222222"}

RequestAddresses == ValidAddresses \cup {"0x12", "1111111111111111111111111111111111111111"}

IsValidAddress(address) == address \in ValidAddresses

\* what retrieveInterestAndTransactionsForAllTokens answers for an address:
\* the token results and the transactions, or an Error it throws
RetrieveAnswers ==
    {[threw |-> FALSE,
      value |-> [USDC |-> [token |-> "USDC"], WXDAI |-> [token |-> "WXDAI"],
                 transactions |-> "transactions"]],
     [threw |-> TRUE, message |-> "HTTP 502: Bad Gateway"],
     [threw |-> TRUE, message |-> "fetch failed"]}

\* and retrieveInterestAndTransactionsForAllTokensV2
RetrieveAnswersV2 ==
    {[threw |-> FALSE,
      value |-> [borrow |-> [totalInterest |-> IntToString(5, 1), dailyDetails |-> <<>>],
                 supply |-> [totalInterest |-> IntToString(12, 1), dailyDetails |-> <<>>],
                 transactions |-> "transactions"]],
     [threw |-> TRUE, message |-> "HTTP 502: Bad Gateway"],
     [threw |-> TRUE, message |-> "fetch failed"]}

\* a catch that pushes nothing for the address that failed
FailedEntryDropped(address, message) == <<>>

\* lines 74-81: the entry pushed when the computation of an address threw
FailedEntry(address, message) ==
    <<[address |-> address, success |-> FALSE, error |-> message]>>

\* lines 53-73
SuccessEntry(address, value) ==
    <<[address |-> address, success |-> TRUE,
       data |-> [address |-> address,
                 interests |-> [USDC |-> value.USDC, WXDAI |-> value.WXDAI],
                 transactions |-> value.transactions]]>>

\* part_012, lines 56-86
SuccessEntryV2(address, value) ==
    <<[address |-> address, success |-> TRUE,
       data |-> [address |-> address,
                 interests |->
                    [WXDAI |->
                        [token |-> "WXDAI",
                         borrow |-> value.borrow,
                         supply |-> value.supply,
                         summary |->
                            [totalBorrowInterest |-> value.borrow.totalInterest,
                             totalSupplyInterest |-> value.supply.totalInterest,
                             netInterest |->
                                BigToString(BigSub(BigInt(value.supply.totalInterest),
                                                   BigInt(value.borrow.totalInterest)))]]],
                 transactions |-> value.transactions]]>>

\* lines 84-98
ResponseOf(addressArray, results, version) ==
    [status |-> 200, success |-> TRUE,
     addresses |-> addressArray,
     results |-> results,
     summary |-> [totalAddresses |-> Len(addressArray),
                  successful |-> Len(SelectSeq(results, LAMBDA r : r.success)),
                  failed |-> Len(SelectSeq(results, LAMBDA r : ~r.success)),
                  version |-> version]]

\* lines 13-46: the status the handler answers before the loop, 0 when it
\* goes on to the loop
RejectedWith(method, addressArray) ==
    IF method # "GET" THEN 405
    ELSE IF \E i \in 1..Len(addressArray) : ~IsValidAddress(addressArray[i]) THEN 400
    ELSE IF Len(addressArray) = 0 THEN 400
    ELSE IF Len(addressArray) > MaxAddresses THEN 400
    ELSE 0

InitApi ==
    /\ \E method \in {"GET", "POST"}, version \in {"v3", "v2"},
          n \in 0..(MaxAddresses + 1) :
          \E addressArray \in [1..n -> RequestAddresses] :
             allBalances = [method |-> method, version |-> version,
                            addresses |-> addressArray]
    /\ call = [i |-> 0, threw |-> <<>>]
    /\ result = [results |-> <<>>]
    /\ pc = "received"

\* lines 13-48
Validate ==
    /\ pc = "received"
    /\ IF RejectedWith(allBalances.method, allBalances.addresses) # 0
       THEN /\ pc' = "responded"
            /\ result' = [results |-> <<>>,
                          response |->
                             [status |-> RejectedWith(allBalances.method,
                                                      allBalances.addresses)]]
            /\ call' = call
       ELSE /\ pc' = "loop"
            /\ call' = [i |-> 1, threw |-> <<>>]
            /\ result' = result
    /\ UNCHANGED allBalances

\* lines 49-82: one turn of the loop, on the answer of the computation;
\* call.threw keeps, for each address done, whether its computation threw
HandleAddress(answer) ==
    /\ pc = "loop"
    /\ allBalances.version = "v3"
    /\ call.i <= Len(allBalances.addresses)
    /\ result' = [results |->
                     result.results \o
                     (IF answer.threw
                      THEN FailedEntry(allBalances.addresses[call.i], answer.message)
                      ELSE SuccessEntry(allBalances.addresses[call.i], answer.value))]
    /\ call' = [i |-> call.i + 1, threw |-> Append(call.threw, answer.threw)]
    /\ UNCHANGED <<allBalances, pc>>

\* part_012, lines 49-95
HandleAddressV2(answer) ==
    /\ pc = "loop"
    /\ allBalances.version = "v2"
    /\ call.i <= Len(allBalances.addresses)
    /\ result' = [results |->
                     result.results \o
                     (IF answer.threw
                      THEN FailedEntry(allBalances.addresses[call.i], answer.message)
                      ELSE SuccessEntryV2(allBalances.addresses[call.i], answer.value))]
    /\ call' = [i |-> call.i + 1, threw |-> Append(call.threw, answer.threw)]
    /\ UNCHANGED <<allBalances, pc>>

\* lines 84-100
Respond ==
    /\ pc = "loop"
    /\ call.i > Len(allBalances.addresses)
    /\ result' = [results |-> result.results,
                  response |-> ResponseOf(allBalances.addresses, result.results,
                                          allBalances.version)]
    /\ pc' = "responded"
    /\ UNCHANGED <<allBalances, call>>

NextApi ==
    \/ Validate
    \/ \E answer \in RetrieveAnswers : HandleAddress(answer)
    \/ \E answer \in RetrieveAnswersV2 : HandleAddressV2(answer)
    \/ Respond

SpecApi == InitApi /\ [][NextApi]_vars

Computed == pc = "responded" /\ result.response.status = 200

\* C24: in a request of 1 to 3 valid addresses, the response holds one entry
\* per address, in the order of the request; the entry of an address has
\* success = false exactly when the computation of that address threw, and
\* carries the data computed otherwise, whatever happened to the other
\* addresses; summary.successful + summary.failed = summary.totalAddresses.
C24_EveryAddressReported ==
    Computed =>
        /\ Len(allBalances.addresses) \in 1..MaxAddresses
        /\ Len(result.response.results) = Len(allBalances.addresses)
        /\ \A i \in 1..Len(allBalances.addresses) :
              /\ result.response.results[i].address = allBalances.addresses[i]
              /\ result.response.results[i].success = ~call.threw[i]
              /\ result.response.results[i].success =>
                    result.response.results[i].data.address = allBalances.addresses[i]
        /\ result.response.summary.totalAddresses = Len(allBalances.addresses)
        /\ result.response.summary.successful + result.response.summary.failed
              = result.response.summary.totalAddresses
        /\ result.response.summary.failed =
              Cardinality({i \in 1..Len(call.threw) : call.threw[i]})

\* three addresses, the second of which failed while the others succeeded
C24_Witness ==
    /\ Computed
    /\ Len(result.response.results) = 3
    /\ result.response.results[1].success
    /\ ~result.response.results[2].success
    /\ result.response.results[3].success
    /\ call.threw = <<FALSE, TRUE, FALSE>>
    /\ result.response.summary.failed = 1

(***************************************************************************)
(* retrieveInterestAndTransactionsForAllTokens (calculator, lines 347-423) *)
(* with its four collaborators: the balance histories and the indexed      *)
(* transactions of TheGraph, the token transfers of the explorer and the   *)
(* balances read on chain.  The request waits for each in turn; call keeps *)
(* what it has received and which collaborators failed.  Addresses are     *)
(* written in lower case.  The daily statement, derived from the two       *)
(* series without changing them, is left out of the value returned.        *)
(***************************************************************************)
ZeroAddress == "0x0000000000000000000000000000000000000000"

UserAddress == "0x1111111111111111111111111111111111111111"

OtherAddress == "0x2222222222222222222222222222222222222222"

SupplyFunctionName ==
    "supply(address asset,uint256 amount,address onBehalfOf,uint16 referralCode)"

DisperseFunctionName ==
    "disperseToken(address token, address[] recipients, uint256[] values)"

\* gnosisscan.ts lines 697-706: the third part of the id, or null; an id is
\* held as the parts that ':' separates, a missing id as no part
extractTxHashFromId(id) == IF Len(id) >= 3 THEN <<id[3]>> ELSE <<>>

\* tx.hash, undefined on an object that has no such field
HashField(tx) == IF "hash" \in DOMAIN tx THEN <<tx.hash>> ELSE <<>>

\* gnosisscan.ts lines 243-247
IsMintOrBurn(tx) ==
    (tx.from = ZeroAddress \/ tx.to = ZeroAddress) /\ tx.functionName # SupplyFunctionName

\* gnosisscan.ts lines 250-254
IsAlreadyKnown(tx, existingTransactions) ==
    \/ \E i \in 1..Len(existingTransactions.supplies) :
          HashField(existingTransactions.supplies[i]) = <<tx.hash>>
    \/ \E i \in 1..Len(existingTransactions.withdraws) :
          HashField(existingTransactions.withdraws[i]) = <<tx.hash>>

\* gnosisscan.ts lines 233-262; hashToFilter is null (no element) or a hash
cleanAndFilterTransactions(rawTransactions, userAddress, existingTransactions, hashToFilter) ==
    SelectSeq(rawTransactions,
              LAMBDA tx : /\ hashToFilter = <<>> \/ <<tx.hash>> = hashToFilter
                          /\ ~IsMintOrBurn(tx)
                          /\ ~IsAlreadyKnown(tx, existingTransactions))

\* gnosisscan.ts lines 270-283
determineTransactionType(tx, userAddress) ==
    IF tx.to = userAddress
    THEN IF tx.functionName = DisperseFunctionName THEN "ronday" ELSE "in_others"
    ELSE IF tx.from = userAddress THEN "out_others"
    ELSE "unknown"

\* gnosisscan.ts lines 293-306
formatTransactions(filteredTransactions, tokenSymbol, version, userAddress) ==
    [i \in 1..Len(filteredTransactions) |->
        [txHash    |-> filteredTransactions[i].hash,
         amount    |-> filteredTransactions[i].value,
         timestamp |-> DigitsValue(filteredTransactions[i].timeStamp),
         type      |-> determineTransactionType(filteredTransactions[i], userAddress),
         token     |-> tokenSymbol,
         version   |-> version]]

\* gnosisscan.ts lines 183-223: a token whose request failed gets no transfer
fetchSupplyTokenTransactionsFromAPI(answers) ==
    [token \in Tokens |-> IF answers[token].threw THEN <<>> ELSE answers[token].value]

\* gnosisscan.ts lines 317-356
fetchSupplyTokenTransactionsViaGnosisScan(answers, userAddress, existingTransactions) ==
    [token \in Tokens |->
        formatTransactions(
            cleanAndFilterTransactions(fetchSupplyTokenTransactionsFromAPI(answers)[token],
                                       userAddress, existingTransactions, <<>>),
            token, "V3", userAddress)]

\* gnosisscan.ts lines 735-738
getTokenFromReserve(reserve) == IF reserve.symbol = "USDC" THEN "USDC" ELSE "WXDAI"

\* gnosisscan.ts lines 741-806: the indexed transactions of one kind that
\* belong to a token and have a hash, in the format of the frontend
FrontendOfKind(txs, token, type) ==
    [i \in 1..Len(SelectSeq(txs, LAMBDA tx : getTokenFromReserve(tx.reserve) = token
                                              /\ extractTxHashFromId(tx.id) # <<>>)) |->
        [txHash    |-> extractTxHashFromId(
                           SelectSeq(txs, LAMBDA tx :
                               getTokenFromReserve(tx.reserve) = token
                               /\ extractTxHashFromId(tx.id) # <<>>)[i].id)[1],
         amount    |-> SelectSeq(txs, LAMBDA tx :
                           getTokenFromReserve(tx.reserve) = token
                           /\ extractTxHashFromId(tx.id) # <<>>)[i].amount,
         timestamp |-> SelectSeq(txs, LAMBDA tx :
                           getTokenFromReserve(tx.reserve) = token
                           /\ extractTxHashFromId(tx.id) # <<>>)[i].timestamp,
         type      |-> type,
         token     |-> token,
         version   |-> "V3"]]

\* gnosisscan.ts lines 725-829
transformTransactionsV3ToFrontendFormat(transactions, gnosisTransactions) ==
    [token \in Tokens |->
        [debt   |-> FrontendOfKind(transactions.borrows, token, "borrow")
                    \o FrontendOfKind(transactions.repays, token, "repay"),
         supply |-> SortByTimestamp(
                        FrontendOfKind(transactions.supplies, token, "deposit")
                        \o FrontendOfKind(transactions.withdraws, token, "withdraw")
                        \o gnosisTransactions[token])]]

\* calculator lines 376-391: a series that is not empty gets the point of
\* today when the balances could be read
WithTodayPoint(interest, currentBalances, balanceType, token, today) ==
    IF Len(interest.dailyDetails) > 0 /\ currentBalances.ok
    THEN [interest EXCEPT !.dailyDetails =
             addTodayPoint(interest.dailyDetails, currentBalances.balance,
                           balanceType, token, today)]
    ELSE interest

\* calculator lines 369-402
TokenResults(balances, currentBalances, token, today) ==
    [token  |-> token,
     borrow |-> WithTodayPoint(calculateDebtInterestFromBalances(balances.vtoken, token),
                               currentBalances, "debt", token, today),
     supply |-> WithTodayPoint(calculateSupplyInterestFromBalances(balances.atoken, token),
                               currentBalances, "supply", token, today)]

\* what fetchAllTokenBalances answers: an Error, no history, or one USDC
\* snapshot of 2024-03-01
BalanceHistoryAnswers ==
    {[threw |-> TRUE, message |-> "fetch failed"]}
    \cup {[threw |-> FALSE,
           value |-> [atoken |-> [j \in 1..Len(list) |-> ATokenItem(list[j])],
                      vtoken |-> [j \in 1..Len(list) |-> VTokenItem(list[j])]]] :
            list \in {<<>>,
                      <<Snapshot(1709287200, IntToString(1000, 1),
                                 IntToString(100, 1) \o Repeat("0", 25), "USDC")>>}}

\* a supply or a withdrawal as the indexer holds it
IndexedTransaction(txHash, symbol, timestamp) ==
    [id        |-> <<"32350433", "4", txHash, "14", "14">>,
     reserve   |-> [symbol |-> symbol],
     amount    |-> IntToString(1000, 1),
     timestamp |-> timestamp]

\* what fetchAllTransactionsV3 answers
IndexedTransactionsAnswers ==
    {[threw |-> TRUE, message |-> "fetch failed"],
     [threw |-> FALSE,
      value |-> [borrows |-> <<>>, supplies |-> <<>>, withdraws |-> <<>>, repays |-> <<>>]],
     [threw |-> FALSE,
      value |-> [borrows |-> <<>>,
                 supplies |-> <<IndexedTransaction("0xaa", "USDC", 1709287200)>>,
                 withdraws |-> <<>>, repays |-> <<>>]],
     [threw |-> FALSE,
      value |-> [borrows |-> <<IndexedTransaction("0xcc", "USDC", 1709290000)>>,
                 supplies |-> <<IndexedTransaction("0xaa", "USDC", 1709287200)>>,
                 withdraws |-> <<IndexedTransaction("0xbb", "USDC", 1709380800)>>,
                 repays |-> <<>>]]}

\* a token transfer as the explorer lists it
ExplorerTransfer(hash, from, to, timeStamp, functionName) ==
    [hash |-> hash, from |-> from, to |-> to, value |-> IntToString(1000, 1),
     timeStamp |-> IntToString(timeStamp, 1), functionName |-> functionName]

\* the mint of the supply 0xaa, a transfer received from another account,
\* the burn of the withdrawal 0xbb made through another function, and a
\* transfer sent that shares the hash 0xbb
ExplorerTransfers ==
    {ExplorerTransfer("0xaa", ZeroAddress, UserAddress, 1709287200, SupplyFunctionName),
     ExplorerTransfer("0xdd", OtherAddress, UserAddress, 1709300000, DisperseFunctionName),
     ExplorerTransfer("0xbb", UserAddress, ZeroAddress, 1709380800, "withdraw"),
     ExplorerTransfer("0xbb", UserAddress, OtherAddress, 1709380800, "withdraw")}

\* what the explorer answers for one token
ExplorerAnswers ==
    {[threw |-> TRUE, message |-> "HTTP 502: Bad Gateway"],
     [threw |-> FALSE, value |-> <<>>]}
    \cup {[threw |-> FALSE, value |-> <<t>>] : t \in ExplorerTransfers}
    \cup {[threw |-> FALSE,
           value |-> <<ExplorerTransfer("0xaa", ZeroAddress, UserAddress, 1709287200,
                                        SupplyFunctionName),
                       ExplorerTransfer("0xdd", OtherAddress, UserAddress, 1709300000,
                                        DisperseFunctionName)>>]}

\* what the node answers to the balance read: no answer, or the word 16^3
BalanceReadAnswers ==
    {answer \in RpcAnswers :
        \/ ~answer.ok
        \/ answer.hasResult /\ answer.high = 1 /\ answer.shift = 3 /\ answer.low = 0}

NothingReceived ==
    [failed |-> {},
     allTransactions |-> [borrows |-> <<>>, supplies |-> <<>>,
                          withdraws |-> <<>>, repays |-> <<>>],
     gnosisTransactions |-> [token \in Tokens |-> <<>>],
     currentBalances |-> [ok |-> FALSE, balance |-> Str0]]

InitRetrieve ==
    /\ allBalances = [atoken |-> <<>>, vtoken |-> <<>>]
    /\ call = NothingReceived
    /\ result = [threw |-> FALSE, returned |-> FALSE]
    /\ pc = "start"

\* the catch of lines 419-422 throws the error again
RetrieveThrows(collaborator, message) ==
    /\ pc' = "threw"
    /\ call' = [call EXCEPT !.failed = call.failed \cup {collaborator}]
    /\ result' = [threw |-> TRUE, returned |-> FALSE, message |-> message]
    /\ UNCHANGED allBalances

\* line 353
AwaitFetchAllTokenBalances(answer) ==
    /\ pc = "start"
    /\ IF answer.threw
       THEN RetrieveThrows("balance history", answer.message)
       ELSE /\ allBalances' = answer.value
            /\ pc' = "balances"
            /\ UNCHANGED <<call, result>>

\* line 356
AwaitFetchAllTransactionsV3(answer) ==
    /\ pc = "balances"
    /\ IF answer.threw
       THEN RetrieveThrows("indexed transactions", answer.message)
       ELSE /\ call' = [call EXCEPT !.allTransactions = answer.value]
            /\ pc' = "transactions"
            /\ UNCHANGED <<allBalances, result>>

\* line 357: one request to the explorer for each token
AwaitFetchSupplyTokenTransactionsViaGnosisScan(answers) ==
    /\ pc = "transactions"
    /\ call' = [call EXCEPT
                  !.failed = call.failed \cup
                             (IF \E token \in Tokens : answers[token].threw
                              THEN {"explorer"} ELSE {}),
                  !.gnosisTransactions =
                      fetchSupplyTokenTransactionsViaGnosisScan(answers, UserAddress,
                                                                call.allTransactions)]
    /\ pc' = "explorer"
    /\ UNCHANGED <<allBalances, result>>

\* line 363
AwaitGetCurrentBalances(answer) ==
    /\ pc = "explorer"
    /\ call' = [call EXCEPT
                  !.failed = call.failed \cup
                             (IF getCurrentBalances(answer).ok THEN {} ELSE {"balance read"}),
                  !.currentBalances = getCurrentBalances(answer)]
    /\ pc' = "read"
    /\ UNCHANGED <<allBalances, result>>

\* lines 360 and 365-417; today is the clock of the request
ReturnResults(today) ==
    /\ pc = "read"
    /\ result' = [threw |-> FALSE, returned |-> TRUE,
                  value |->
                     [tokens |-> [token \in Tokens |->
                                     TokenResults(allBalances, call.currentBalances,
                                                  token, today)],
                      transactions |->
                         transformTransactionsV3ToFrontendFormat(call.allTransactions,
                                                                 call.gnosisTransactions)]]
    /\ pc' = "returned"
    /\ UNCHANGED <<allBalances, call>>

NextRetrieve ==
    \/ \E answer \in BalanceHistoryAnswers : AwaitFetchAllTokenBalances(answer)
    \/ \E answer \in IndexedTransactionsAnswers : AwaitFetchAllTransactionsV3(answer)
    \/ \E answers \in [Tokens -> ExplorerAnswers] :
          AwaitFetchSupplyTokenTransactionsViaGnosisScan(answers)
    \/ \E answer \in BalanceReadAnswers : AwaitGetCurrentBalances(answer)
    \/ \E today \in NowTimes : ReturnResults(today)

SpecRetrieve == InitRetrieve /\ [][NextRetrieve]_vars

\* C25: the failure of any collaborator (the balance histories, the indexed
\* transactions, the explorer, the balance read on chain) propagates out of
\* retrieveInterestAndTransactionsForAllTokens: the request never returns a
\* result after one of them failed.
C25_CollaboratorFailuresPropagate == result.returned => call.failed = {}

\* what holds: a failure of the balance histories or of the indexed
\* transactions is thrown again, with its message, and nothing is returned
HistoryAndIndexFailuresPropagate ==
    (call.failed \cap {"balance history", "indexed transactions"} # {})
        => pc = "threw" /\ result.threw /\ ~result.returned
           /\ result.message = "fetch failed"

\* a result returned although the explorer and the node both failed
ReturnedAfterAbsorbedFailures ==
    result.returned /\ call.failed = {"explorer", "balance read"}

\* the types that formatTransactions gives to a transfer of the explorer
ExplorerTypes == {"ronday", "in_others", "out_others", "unknown"}

\* the hashes of the indexed supplies and withdrawals
IndexedSupplyHashes ==
    {extractTxHashFromId(call.allTransactions.supplies[i].id) :
        i \in 1..Len(call.allTransactions.supplies)}
    \cup {extractTxHashFromId(call.allTransactions.withdraws[i].id) :
            i \in 1..Len(call.allTransactions.withdraws)}

\* C27: a transfer of the explorer whose hash is the hash of an indexed
\* supply or withdrawal is dropped, so that no hash appears twice in the
\* merged supply list of a token.
C27_KnownHashesDropped ==
    result.returned =>
        \A token \in Tokens :
            /\ \A i \in 1..Len(result.value.transactions[token].supply) :
                  result.value.transactions[token].supply[i].type \in ExplorerTypes
                      => <<result.value.transactions[token].supply[i].txHash>>
                             \notin IndexedSupplyHashes
            /\ \A i, j \in 1..Len(result.value.transactions[token].supply) :
                  i # j => result.value.transactions[token].supply[i].txHash
                               # result.value.transactions[token].supply[j].txHash

\* what holds: the merged supply list is sorted by time and the transfers
\* kept from the explorer are those that are no mint and no burn made
\* through another function than supply
MergedSupplySortedWithoutBurns ==
    result.returned =>
        \A token \in Tokens :
            /\ \A i \in 1..(Len(result.value.transactions[token].supply) - 1) :
                  result.value.transactions[token].supply[i].timestamp
                      <= result.value.transactions[token].supply[i + 1].timestamp
            /\ \A i \in 1..Len(call.gnosisTransactions[token]) :
                  call.gnosisTransactions[token][i].txHash \in {"0xaa", "0xdd", "0xbb"}
                  /\ (call.gnosisTransactions[token][i].txHash = "0xbb"
                         => call.gnosisTransactions[token][i].type = "out_others")

\* the mint of an indexed supply kept beside the supply itself
KnownSupplyKeptTwice ==
    /\ result.returned
    /\ \E i, j \in 1..Len(result.value.transactions["USDC"].supply) :
          /\ result.value.transactions["USDC"].supply[i].type = "deposit"
          /\ result.value.transactions["USDC"].supply[j].type = "in_others"
          /\ result.value.transactions["USDC"].supply[i].txHash
                 = result.value.transactions["USDC"].supply[j].txHash

\* C26: the point of today of the V2 request is the one of the V3 request:
\* after addTodayPointV2 and calculateLastPointInterestV2 the final point
\* holds the balance read now, a periodInterest equal to that balance minus
\* the balance of the last snapshot, and a totalInterest equal to the last
\* snapshot's totalInterest plus that periodInterest.
C26_TodayPointV2LikeV3 ==
    ExtendedV2 =>
        /\ DetailBalance(TailPoint) = call.currentBalance
        /\ BigInt(TailPoint.periodInterest) =
              BigSub(BigInt(call.currentBalance), BigInt(DetailBalance(LastBefore)))
        /\ BigInt(TailPoint.totalInterest) =
              BigAdd(BigInt(LastBefore.totalInterest), BigInt(TailPoint.periodInterest))

\* what holds: the V2 point of today holds the balance read now, no interest
\* of its own, and the totalInterest of the last snapshot
TodayPointV2CarriesTotal ==
    ExtendedV2 =>
        /\ DetailBalance(TailPoint) = call.currentBalance
        /\ TailPoint.periodInterest = Str0
        /\ TailPoint.totalInterest = LastBefore.totalInterest
        /\ TailPoint.source = "rpc"

\* a V2 series extended by a balance above the one of its last snapshot
ExtendedV2ByGrownBalance ==
    /\ ExtendedV2
    /\ BigGT(BigInt(call.currentBalance), BigInt(DetailBalance(LastBefore)))

\* C28: in the object returned for a token side by the V3 and by the V2
\* request, whenever dailyDetails is not empty the top-level totalInterest
\* and summary.totalInterest equal the totalInterest of the last entry of
\* dailyDetails, also after the point of today has been added.
C28_TotalsMatchLastDetail ==
    ((pc = "extended" \/ pc = "extendedV2") /\ Len(Details) > 0) =>
        /\ BigInt(result.totalInterest) = BigInt(TailPoint.totalInterest)
        /\ BigInt(result.summary.totalInterest) = BigInt(TailPoint.totalInterest)

\* what holds: the two totals are those of the last snapshot, which the V2
\* point of today carries and to which the V3 point of today adds its own
\* periodInterest
TotalsMatchLastSnapshot ==
    ((pc = "extended" \/ pc = "extendedV2") /\ Len(call.before) > 0) =>
        /\ result.totalInterest = LastBefore.totalInterest
        /\ result.summary.totalInterest = LastBefore.totalInterest
        /\ pc = "extendedV2" => result.totalInterest = TailPoint.totalInterest
        /\ ExtendedV3 =>
              BigInt(TailPoint.totalInterest) =
                  BigAdd(BigInt(result.totalInterest), BigInt(TailPoint.periodInterest))

\* a V3 series extended by a point of today that has interest of its own
ExtendedV3WithInterestToday == ExtendedV3 /\ TailPoint.periodInterest # Str0

(***************************************************************************)
(* fetchAllTransactionsV2 (fetch-transactions-v2.ts, lines 150-202): the   *)
(* four lists of a user are read page by page with one skip for all.  The  *)
(* server holds, for each type, the items 1..count in the order of time;   *)
(* the oldest `foreign` of them belong to another reserve than rmmWXDAI.   *)
(* A list of items is held as the ranges of item numbers it is made of, in *)
(* the order they were pushed.                                             *)
(***************************************************************************)
LIMIT == 1000

TransactionTypes == {"borrows", "supplies", "withdraws", "repays"}

Min(a, b) == IF a < b THEN a ELSE b

\* what the server answers for one type: the items skip+1 .. skip+first of
\* those it holds
PageOf(held, skip, first) ==
    [from |-> skip + 1, to |-> Min(skip + first, held.count), foreign |-> held.foreign]

\* data.borrows?.length || 0
PageLength(page) == Max(0, page.to - page.from + 1)

\* (data.borrows || []).filter(tx => isValidSymbol(tx.reserve?.symbol)), as
\* the ranges to push: none when no item of the page is kept
ValidItems(page) ==
    IF Max(page.from, page.foreign + 1) <= page.to
    THEN <<[from |-> Max(page.from, page.foreign + 1), to |-> page.to]>>
    ELSE <<>>

\* the item numbers of a list
ItemsOf(list) == UNION {list[i].from .. list[i].to : i \in 1..Len(list)}

\* the number of items of a list
RECURSIVE LengthOf(_)
LengthOf(list) == IF Len(list) = 0 THEN 0
                  ELSE (list[1].to - list[1].from + 1) + LengthOf(Tail(list))

\* line 183
TotalInBatch(data) ==
    PageLength(data["borrows"]) + PageLength(data["supplies"])
    + PageLength(data["withdraws"]) + PageLength(data["repays"])

\* what the server holds for the user, by type
HeldCounts == {0, 400, 1000, 1500, 2000}

ForeignCounts == {0, 300}

InitFetchV2 ==
    /\ \E counts \in [TransactionTypes -> HeldCounts], foreign \in ForeignCounts :
          allBalances = [type \in TransactionTypes |->
                            [count |-> counts[type],
                             foreign |-> Min(foreign, counts[type])]]
    /\ result = [type \in TransactionTypes |-> <<>>]
    /\ call = [skip |-> 0, hasMore |-> TRUE, requests |-> 0]
    /\ pc = "looping"

\* lines 163-190: one turn of the loop
RequestPageV2 ==
    /\ pc = "looping"
    /\ call.hasMore
    /\ result' = [type \in TransactionTypes |->
                     result[type] \o ValidItems(PageOf(allBalances[type], call.skip, LIMIT))]
    /\ call' = IF TotalInBatch([type \in TransactionTypes |->
                                   PageOf(allBalances[type], call.skip, LIMIT)]) < LIMIT * 4
               THEN [call EXCEPT !.hasMore = FALSE, !.requests = call.requests + 1]
               ELSE [call EXCEPT !.skip = call.skip + LIMIT,
                                 !.requests = call.requests + 1]
    /\ UNCHANGED <<allBalances, pc>>

\* lines 163 and 196
ReturnAllTransactionsV2 ==
    /\ pc = "looping"
    /\ ~call.hasMore
    /\ pc' = "returned"
    /\ UNCHANGED <<allBalances, call, result>>

NextFetchV2 == RequestPageV2 \/ ReturnAllTransactionsV2

SpecFetchV2 == InitFetchV2 /\ [][NextFetchV2]_vars

\* C29: fetchAllTransactionsV2 returns every rmmWXDAI borrow, deposit,
\* withdrawal and repayment the server holds for the user, whatever the
\* number of items of each type: it asks for the next page as long as one
\* of the four lists came back full, and no item is skipped or returned
\* twice.
C29_EveryTransactionReturnedOnce ==
    pc = "returned" =>
        \A type \in TransactionTypes :
            /\ ItemsOf(result[type]) =
                  (allBalances[type].foreign + 1) .. allBalances[type].count
            /\ LengthOf(result[type]) = Cardinality(ItemsOf(result[type]))

\* what holds: the next page is asked for only when all four lists came
\* back full; the items returned are, without repeat, the rmmWXDAI ones
\* among the first 1000 * requests of each type
ReturnedPagesOfAllFullBatches ==
    pc = "returned" =>
        /\ call.skip = LIMIT * (call.requests - 1)
        /\ \A k \in 1..(call.requests - 1), type \in TransactionTypes :
              allBalances[type].count >= LIMIT * k
        /\ \A type \in TransactionTypes :
              /\ ItemsOf(result[type]) =
                    (allBalances[type].foreign + 1)
                        .. Min(allBalances[type].count, LIMIT * call.requests)
              /\ LengthOf(result[type]) = Cardinality(ItemsOf(result[type]))

\* the loop stopped after one page although a list came back full
StoppedAfterFullList ==
    /\ pc = "returned"
    /\ call.requests = 1
    /\ allBalances["supplies"].count = 1500
    /\ allBalances["borrows"].count = 0

(***************************************************************************)
(* fetchAllTransactionsV3 (gnosisscan.ts, lines 511-690): each type has a  *)
(* skip and a limitReached flag of its own.  The server holds the items    *)
(* 1..count of each type, the oldest `foreign` of another reserve than     *)
(* USDC and WXDAI, and may leave the list of a requested type null or      *)
(* absent in a response.  call also remembers, for each type, whether a    *)
(* response held fewer than 1000 items of it (a null or absent list        *)
(* included), whether it was requested again after that, and whether the   *)
(* last response left a list null.  Of batchNumber, which only the logs    *)
(* read, the parity is kept.                                               *)
(***************************************************************************)
HeldCountsV3 == {400, 1000, 1500}

InitFetchV3 ==
    /\ \E counts \in [TransactionTypes -> HeldCountsV3], foreign \in ForeignCounts :
          allBalances = [type \in TransactionTypes |->
                            [count |-> counts[type],
                             foreign |-> Min(foreign, counts[type])]]
    /\ result = [type \in TransactionTypes |-> <<>>]
    /\ call = [skip         |-> [type \in TransactionTypes |-> 0],
               limitReached |-> [type \in TransactionTypes |-> FALSE],
               fewer        |-> [type \in TransactionTypes |-> FALSE],
               again        |-> [type \in TransactionTypes |-> FALSE],
               nullAnswered |-> FALSE,
               batchNumber  |-> 0]
    /\ pc = "looping"

\* lines 547-552
TypesToFetch == {type \in TransactionTypes : ~call.limitReached[type]}

\* lines 599, 613, 626 and 639: typesToFetch.borrows && data.borrows
Processed(type, nulls) == type \in TypesToFetch /\ type \notin nulls

\* lines 543-652: one turn of the loop; nulls are the requested types whose
\* list the response leaves null or absent
RequestBatchV3(nulls) ==
    /\ pc = "looping"
    /\ TypesToFetch # {}
    /\ nulls \subseteq TypesToFetch
    /\ result' = [type \in TransactionTypes |->
                     IF Processed(type, nulls)
                     THEN result[type]
                          \o ValidItems(PageOf(allBalances[type], call.skip[type], LIMIT))
                     ELSE result[type]]
    /\ call' =
          [skip |->
              [type \in TransactionTypes |->
                  IF Processed(type, nulls)
                     /\ ~(PageLength(PageOf(allBalances[type], call.skip[type], LIMIT))
                              < LIMIT)
                  THEN call.skip[type] + LIMIT
                  ELSE call.skip[type]],
           limitReached |->
              [type \in TransactionTypes |->
                  \/ call.limitReached[type]
                  \/ /\ Processed(type, nulls)
                     /\ PageLength(PageOf(allBalances[type], call.skip[type], LIMIT))
                            < LIMIT],
           fewer |->
              [type \in TransactionTypes |->
                  \/ call.fewer[type]
                  \/ type \in nulls
                  \/ /\ type \in TypesToFetch
                     /\ PageLength(PageOf(allBalances[type], call.skip[type], LIMIT))
                            < LIMIT],
           again |->
              [type \in TransactionTypes |->
                  call.again[type] \/ (type \in TypesToFetch /\ call.fewer[type])],
           nullAnswered |-> nulls # {},
           batchNumber  |-> (call.batchNumber + 1) % 2]
    /\ UNCHANGED <<allBalances, pc>>

\* lines 543 and 684
ReturnAllTransactionsV3 ==
    /\ pc = "looping"
    /\ TypesToFetch = {}
    /\ pc' = "returned"
    /\ UNCHANGED <<allBalances, call, result>>

NextFetchV3 ==
    \/ \E nulls \in SUBSET TransactionTypes : RequestBatchV3(nulls)
    \/ ReturnAllTransactionsV3

SpecFetchV3 == InitFetchV3 /\ [][NextFetchV3]_vars

\* the loop goes on as long as it can
FairFetchV3 == SpecFetchV3 /\ WF_vars(NextFetchV3)

\* C30: fetchAllTransactionsV3 pages each of the four types on its own and
\* terminates: the skip of a type advances by 1000 only after a full page
\* of that type, a type is never requested again once a response held
\* fewer than 1000 items of it (an empty, null or absent list counts as
\* fewer), and the loop returns whenever each type eventually yields fewer
\* than 1000 items.
C30_TypeNeverRequestedAfterShortPage ==
    \A type \in TransactionTypes :
        /\ ~call.again[type]
        /\ call.skip[type] > 0 => allBalances[type].count >= call.skip[type]

\* the liveness half of C30, to be read under FairFetchV3
C30_ReturnsOnceEveryTypeWasShort ==
    (\A type \in TransactionTypes : call.fewer[type]) ~> (pc = "returned")

\* what holds: a type is requested again only after a null or absent list;
\* its skip is the number of full pages received times 1000; once the loop
\* has returned every type has given every USDC and WXDAI item once
PagedIndependently ==
    \A type \in TransactionTypes :
        /\ call.limitReached[type] =>
              /\ ItemsOf(result[type]) =
                    (allBalances[type].foreign + 1) .. allBalances[type].count
              /\ LengthOf(result[type]) = Cardinality(ItemsOf(result[type]))
              /\ allBalances[type].count - call.skip[type] < LIMIT
        /\ call.skip[type] <= allBalances[type].count
        /\ ItemsOf(result[type]) =
              (allBalances[type].foreign + 1)
                  .. Min(allBalances[type].count,
                         call.skip[type] + (IF call.limitReached[type] THEN LIMIT ELSE 0))
        /\ (call.again[type] /\ ~call.limitReached[type]) => call.fewer[type]

\* what holds under FairFetchV3: the loop returns unless the server leaves
\* lists null again and again
ReturnsUnlessNullForEver == <>(pc = "returned") \/ []<>(call.nullAnswered)

\* a type requested again after a response that left its list null
RequestedAgainAfterNull ==
    \E type \in TransactionTypes :
        call.again[type] /\ call.skip[type] = 0 /\ result[type] = <<>>

=============================================================================
